---- MODULE Spec2Model ----
(***************************************************************************)
(* The object space of the PHP interpreter (hippy/objspace.py): the        *)
(* comparator (_compare, _compare_aggregates), modulo, the shifts and the  *)
(* string bitwise operators, as a state machine.  A call is started from   *)
(* the idle state with operands drawn from bounded value sets; the         *)
(* aggregate comparator then pops a pair and runs the body of its main     *)
(* loop, one step each.                                                    *)
(***************************************************************************)
EXTENDS Integers, Sequences, FiniteSets, TLC

VARIABLES
    pc,         \* "idle", "loop" and "body" (inside _compare_aggregates) or "done"
    call,       \* the call in flight: operation and operands
    ret,        \* the value returned by the finished call
    obj_st,     \* _compare_aggregates: the object stack, pairs (w_left, w_right)
    strict_st,  \* _compare_aggregates: the strict stack, one flag per pair
    popped,     \* _compare_aggregates: w_left, w_right and strict, once popped
    warnings,   \* the messages the call passed to self.ec.warn
    heap        \* the mutable objects the call works on, by address

vars == <<pc, call, ret, obj_st, strict_st, popped, warnings, heap>>

(***************************************************************************)
(* Bounds of the model.                                                    *)
(***************************************************************************)
MaxStrLen == 2      \* longest string over CmpChars given to the comparator
MaxBitLen == 2      \* longest byte string given to or_ / and_ / xor
MaxInt == 7         \* modulo operands range over -MaxInt .. MaxInt
MaxShift == 70      \* shift counts range over -MaxShift .. 2 * MaxShift
MaxLen == 2         \* longest generated array
MaxSliceLen == 4    \* longest array given to slice; starts and lengths go one beyond

(***************************************************************************)
(* Type tags, in the order of the class attribute tuple.                   *)
(***************************************************************************)
tp_int == 0
tp_float == 1
tp_str == 2
tp_array == 3
tp_null == 4
tp_bool == 5
tp_object == 6
tp_file_res == 7

(***************************************************************************)
(* Values.  A string is its sequence of byte codes.  A float is            *)
(* num / 10^scale, or NaN.  Arrays and instances carry an identity (id):   *)
(* two records with the same id and contents are the same object ("is").   *)
(* A reference is named by its cell; a None entry of the work stack is the *)
(* record NoneEntry.                                                       *)
(***************************************************************************)
W_IntObject(v) == [tp |-> tp_int, intval |-> v]
W_FloatObject(n, s) == [tp |-> tp_float, nan |-> FALSE, num |-> n, scale |-> s]
W_NaN == [tp |-> tp_float, nan |-> TRUE, num |-> 0, scale |-> 0]
W_ConstStringObject(s) == [tp |-> tp_str, strval |-> s]
W_BoolObject(b) == [tp |-> tp_bool, boolval |-> b]
w_True == W_BoolObject(TRUE)
w_False == W_BoolObject(FALSE)
w_Null == [tp |-> tp_null]
W_ArrayObject(i, its) == [tp |-> tp_array, id |-> i, items |-> its]
W_InstanceObject(i, k, its) == [tp |-> tp_object, id |-> i, klass |-> k, attrs |-> its]
W_FileResource(r) == [tp |-> tp_file_res, res_id |-> r]
W_Reference(c) == [cell |-> c]
NoneEntry == [none |-> TRUE]

IsReference(w) == "cell" \in DOMAIN w
IsNone(w) == "none" \in DOMAIN w

\* array keys: W_IntObject or W_ConstStringObject
IntKey(i) == W_IntObject(i)
StrKey(s) == W_ConstStringObject(s)
Item(k, v) == [key |-> k, val |-> v]

(***************************************************************************)
(* Byte codes of the characters used in strings.                           *)
(***************************************************************************)
PHP_WHITESPACE == {32, 9, 10, 13, 11, 0}
Digits == 48 .. 57
ChDot == {46}
ChMinus == {45}
ChPlus == {43}
ChExp == {101, 69}

RECURSIVE Pow10(_)
Pow10(n) == IF n <= 0 THEN 1 ELSE 10 * Pow10(n - 1)

Min(a, b) == IF a < b THEN a ELSE b
Max(a, b) == IF a < b THEN b ELSE a

(***************************************************************************)
(* my_cmp(one, two, ignore_order), given one == two and one < two.         *)
(***************************************************************************)
\* my_cmp with the test for ignore_order put before the test for equality
my_cmp_order_first(eq, lt, ignore_order) ==
    IF ignore_order \/ lt THEN -1 ELSE IF eq THEN 0 ELSE 1

my_cmp(eq, lt, ignore_order) ==
    IF eq THEN 0
    ELSE IF ignore_order \/ lt THEN -1
    ELSE 1

\* host comparisons of floats (IEEE: every comparison with NaN is false)
FloatEq(a, b) == /\ ~a.nan
                 /\ ~b.nan
                 /\ a.num * Pow10(b.scale) = b.num * Pow10(a.scale)
FloatLt(a, b) == /\ ~a.nan
                 /\ ~b.nan
                 /\ a.num * Pow10(b.scale) < b.num * Pow10(a.scale)

\* host comparison of byte strings: lexicographic
RECURSIVE StrLtFrom(_, _, _)
StrLtFrom(s, t, i) ==
    IF i > Len(t) THEN FALSE
    ELSE IF i > Len(s) THEN TRUE
    ELSE IF s[i] # t[i] THEN s[i] < t[i]
    ELSE StrLtFrom(s, t, i + 1)
StrLt(s, t) == StrLtFrom(s, t, 1)

my_cmp_int(one, two, io) == my_cmp(one = two, one < two, io)
my_cmp_float(one, two, io) == my_cmp(FloatEq(one, two), FloatLt(one, two), io)
my_cmp_str(one, two, io) == my_cmp(one = two, StrLt(one, two), io)
my_cmp_bool(one, two, io) == my_cmp(one = two, (~one) /\ two, io)

(***************************************************************************)
(* convert_string_to_number(s): the number a string parses as and whether  *)
(* the whole string was consumed.  Leading whitespace, an optional sign,   *)
(* digits with an optional "." and an optional exponent.                   *)
(***************************************************************************)
RECURSIVE SkipWhitespace(_, _)
SkipWhitespace(s, i) ==
    IF i <= Len(s) /\ s[i] \in PHP_WHITESPACE THEN SkipWhitespace(s, i + 1) ELSE i

RECURSIVE ScanDigits(_, _)
ScanDigits(s, i) ==
    IF i <= Len(s) /\ s[i] \in Digits THEN ScanDigits(s, i + 1) ELSE i

\* the value of the digits s[i .. j-1]
RECURSIVE DigitsVal(_, _, _)
DigitsVal(s, i, j) ==
    IF j <= i THEN 0 ELSE DigitsVal(s, i, j - 1) * 10 + (s[j - 1] - 48)

At(s, i, set) == i <= Len(s) /\ s[i] \in set

convert_string_to_number(s) ==
    LET i0 == SkipWhitespace(s, 1)
        neg == At(s, i0, ChMinus)
        i1 == IF At(s, i0, ChMinus \cup ChPlus) THEN i0 + 1 ELSE i0
        j1 == ScanDigits(s, i1)
        dot == At(s, j1, ChDot)
        j2 == IF dot THEN ScanDigits(s, j1 + 1) ELSE j1
        nfrac == IF dot THEN j2 - (j1 + 1) ELSE 0
        ndigits == (j1 - i1) + nfrac
        k0 == j2 + 1
        k1 == IF At(s, k0, ChMinus \cup ChPlus) THEN k0 + 1 ELSE k0
        k2 == ScanDigits(s, k1)
        hasexp == ndigits > 0 /\ At(s, j2, ChExp) /\ k2 > k1
        expneg == At(s, k0, ChMinus)
        expval == IF hasexp THEN DigitsVal(s, k1, k2) ELSE 0
        stop == IF hasexp THEN k2 ELSE j2
        mant == DigitsVal(s, i1, j1) * Pow10(nfrac) + DigitsVal(s, j1 + 1, j2)
        smant == IF neg THEN 0 - mant ELSE mant
        num == IF hasexp /\ ~expneg THEN smant * Pow10(expval) ELSE smant
        scale == IF hasexp /\ expneg THEN nfrac + expval ELSE nfrac
    IN  IF ndigits = 0
        THEN [w |-> W_IntObject(0), valid |-> FALSE]
        ELSE [w |-> IF dot \/ hasexp THEN W_FloatObject(num, scale)
                    ELSE W_IntObject(smant),
              valid |-> stop = Len(s) + 1]

(***************************************************************************)
(* The capabilities of a value the comparator uses.                        *)
(***************************************************************************)
float_w(w) == IF w.tp = tp_int THEN W_FloatObject(w.intval, 0) ELSE w

arraylen(w) == Len(w.items)

is_true(w) ==
    IF w.tp = tp_bool THEN w.boolval
    ELSE IF w.tp = tp_null THEN FALSE
    ELSE IF w.tp = tp_int THEN w.intval # 0
    ELSE IF w.tp = tp_float THEN (~w.nan) /\ w.num # 0
    ELSE IF w.tp = tp_str THEN w.strval # <<>> /\ w.strval # <<48>>
    ELSE IF w.tp = tp_array THEN arraylen(w) # 0
    ELSE TRUE

as_number(w) ==
    IF w.tp = tp_null THEN W_IntObject(0)
    ELSE IF w.tp = tp_bool THEN W_IntObject(IF w.boolval THEN 1 ELSE 0)
    ELSE IF w.tp = tp_int \/ w.tp = tp_float THEN w
    ELSE IF w.tp = tp_str THEN convert_string_to_number(w.strval).w
    ELSE IF w.tp = tp_array THEN W_IntObject(IF arraylen(w) = 0 THEN 0 ELSE 1)
    ELSE IF w.tp = tp_file_res THEN W_IntObject(w.res_id)
    ELSE W_IntObject(1)

(***************************************************************************)
(* The values the calls are given.                                         *)
(***************************************************************************)
SeqsUpTo(S, n) == UNION {[1 .. k -> S] : k \in 0 .. n}

\* characters of the strings given to the comparator: 0 1 9 . - a
CmpChars == {48, 49, 57, 46, 45, 97}
\* " 1", "1 ", "1e1", "1.0", "+1", "1e-1", ".10"
ExtraStrings == {<<32, 49>>, <<49, 32>>, <<49, 101, 49>>, <<49, 46, 48>>,
                 <<43, 49>>, <<49, 101, 45, 49>>, <<46, 49, 48>>}
CmpStrings == SeqsUpTo(CmpChars, MaxStrLen) \cup ExtraStrings

Scalars ==
    {w_Null, w_True, w_False, W_NaN}
    \cup {W_IntObject(i) : i \in {-1, 0, 1, 2, 10}}
    \cup {W_FloatObject(0, 0), W_FloatObject(1, 0), W_FloatObject(15, 1)}
    \cup {W_FileResource(1), W_FileResource(2)}
    \cup {W_ConstStringObject(s) : s \in CmpStrings}

\* leaves and inner arrays of the generated arrays: 1, 2, "1", [1], [2]
ArrLeaves == {W_IntObject(1), W_IntObject(2), W_ConstStringObject(<<49>>)}
ListOf(vs) == W_ArrayObject(1, [i \in 1 .. Len(vs) |-> Item(IntKey(i - 1), vs[i])])
InnerArrays == {ListOf(<<W_IntObject(1)>>), ListOf(<<W_IntObject(2)>>)}
ArrVals == ArrLeaves \cup InnerArrays

\* key orders: the lists 0..n-1, and <<1>>, <<1, 0>>, <<0, "a">>
ListKeys(n) == [i \in 1 .. n |-> IntKey(i - 1)]
KeySeqs == {ListKeys(n) : n \in 0 .. MaxLen}
           \cup {<<IntKey(1)>>, <<IntKey(1), IntKey(0)>>, <<IntKey(0), StrKey(<<97>>)>>}
Arrays == {W_ArrayObject(1, [i \in 1 .. Len(ks) |-> Item(ks[i], vs[i])]) :
             <<ks, vs>> \in {p \in KeySeqs \X SeqsUpTo(ArrVals, MaxLen + 1) :
                               Len(p[1]) = Len(p[2])}}

\* instances of class "A" with attributes among p, q, r, and one of class "B"
AttrSeqs == {<<>>, <<"p">>, <<"q">>, <<"p", "q">>, <<"q", "p">>, <<"p", "r">>}
AttrVals == {W_IntObject(1), W_IntObject(2), ListOf(<<W_IntObject(1)>>)}
Objects == {W_InstanceObject(1, "A", [i \in 1 .. Len(ks) |-> Item(ks[i], vs[i])]) :
              <<ks, vs>> \in {p \in AttrSeqs \X SeqsUpTo(AttrVals, 2) :
                                Len(p[1]) = Len(p[2])}}
           \cup {W_InstanceObject(1, "B", <<>>)}

(***************************************************************************)
(* Reference cells, and arrays built by hand: two arrays that each hold a  *)
(* reference back to themselves, an array holding a reference to a scalar, *)
(* arrays nested three deep, arrays holding instances.                     *)
(***************************************************************************)
CycA == W_ArrayObject(10, <<Item(IntKey(0), W_Reference("ca"))>>)
CycB == W_ArrayObject(11, <<Item(IntKey(0), W_Reference("cb"))>>)
RefArr == W_ArrayObject(12, <<Item(IntKey(0), W_Reference("one"))>>)
Cells == [ca |-> CycA, cb |-> CycB, one |-> W_IntObject(1),
          obj |-> W_InstanceObject(1, "C", <<>>)]

Deep(i, x, y, z) ==
    W_ArrayObject(i, <<Item(IntKey(0),
                            W_ArrayObject(i, <<Item(IntKey(0), ListOf(<<W_IntObject(x)>>)),
                                               Item(IntKey(1), W_IntObject(y))>>)),
                       Item(IntKey(1), W_IntObject(z))>>)
DeepArrays == {Deep(i, x, y, z) : i \in {1, 2}, x \in {1, 2}, y \in {1, 2}, z \in {1, 2}}

ObjP(i, k, v) == W_InstanceObject(i, k, <<Item("p", W_IntObject(v))>>)
Mixed ==
    {W_ArrayObject(i, <<Item(IntKey(0), ObjP(i, "A", v)), Item(IntKey(1), W_IntObject(w))>>) :
        i \in {1, 2}, v \in {1, 2}, w \in {1, 2}}
    \cup {W_ArrayObject(1, <<Item(IntKey(0), ListOf(<<>>)), Item(IntKey(1), W_IntObject(2))>>),
          W_ArrayObject(1, <<Item(IntKey(0), ListOf(<<W_IntObject(1)>>)),
                             Item(IntKey(1), ListOf(<<W_IntObject(1)>>))>>),
          W_ArrayObject(1, <<Item(IntKey(0), ListOf(<<W_IntObject(1)>>)),
                             Item(IntKey(1), ObjP(1, "A", 1))>>)}
Extras == {CycA, CycB, RefArr} \cup DeepArrays \cup Mixed

\* a few values of every kind, compared across kinds
Reps == {w_Null, w_True, w_False, W_IntObject(0), W_IntObject(1), W_FloatObject(15, 1),
         W_ConstStringObject(<<>>), W_ConstStringObject(<<49>>), W_ConstStringObject(<<97>>),
         W_FileResource(1), ListOf(<<>>), ListOf(<<W_IntObject(1)>>),
         W_InstanceObject(1, "A", <<>>), ObjP(1, "A", 1), ObjP(1, "B", 1),
         W_Reference("one"), RefArr}

\* instances whose attributes hold reference cells, behind an array attribute
RefObjects ==
    {W_InstanceObject(1, "A", <<Item("p", ListOf(<<W_IntObject(1)>>)), Item(n, W_Reference(c))>>) :
        n \in {"q", "r"}, c \in {"one", "obj"}}

\* the families of pairs given to the comparator
PairFamilies == {"scalars", "arrays", "objects", "reps", "extras", "refobjects"}
Operands(f) ==
    IF f = "scalars" THEN Scalars
    ELSE IF f = "arrays" THEN Arrays
    ELSE IF f = "objects" THEN Objects
    ELSE IF f = "reps" THEN Reps
    ELSE IF f = "refobjects" THEN RefObjects
    ELSE Extras

\* a copy of a value: the same contents in objects of their own
RECURSIVE Copy(_)
Copy(w) ==
    IF IsReference(w) THEN w
    ELSE IF w.tp = tp_array
    THEN W_ArrayObject(w.id + 100,
                       [i \in 1 .. Len(w.items) |-> Item(w.items[i].key, Copy(w.items[i].val))])
    ELSE IF w.tp = tp_object
    THEN W_InstanceObject(w.id + 100, w.klass,
                          [i \in 1 .. Len(w.attrs) |-> Item(w.attrs[i].key, Copy(w.attrs[i].val))])
    ELSE w

deref(w) == IF IsReference(w) THEN Cells[w.cell] ELSE w

(***************************************************************************)
(* Array and instance access.                                              *)
(***************************************************************************)
isset_index(w_arr, w_key) == \E i \in 1 .. Len(w_arr.items) : w_arr.items[i].key = w_key

getitem(w_arr, w_key) ==
    IF isset_index(w_arr, w_key)
    THEN w_arr.items[CHOOSE i \in 1 .. Len(w_arr.items) : w_arr.items[i].key = w_key].val
    ELSE w_Null

\* the fast path of the array loop: both keys ints, or both const strings, and equal
SameKey(w_key, w_rkey) ==
    \/ w_key.tp = tp_int /\ w_rkey.tp = tp_int /\ w_key.intval = w_rkey.intval
    \/ w_key.tp = tp_str /\ w_rkey.tp = tp_str /\ w_key.strval = w_rkey.strval

HasAttr(attrs, name) == \E i \in 1 .. Len(attrs) : attrs[i].key = name
AttrOf(attrs, name) == attrs[CHOOSE i \in 1 .. Len(attrs) : attrs[i].key = name].val

IsAggregate(w) == w.tp = tp_array \/ w.tp = tp_object

(***************************************************************************)
(* What one iteration of a loop of _compare_aggregates leaves behind:      *)
(* either a returned result, or the stacks to go on with.                  *)
(***************************************************************************)
Return(r) == [returned |-> TRUE, res |-> r, new_st |-> <<>>, obj_st |-> <<>>, strict_st |-> <<>>]
GoOn(new, ost, sst) ==
    [returned |-> FALSE, res |-> 0, new_st |-> new, obj_st |-> ost, strict_st |-> sst]

\* while len(new_st) > 0: obj_st.append(new_st.pop()); obj_st.append(new_st.pop());
\*                        strict_st.append(strict)
\* push_new_work taking the deferred pairs from the front of new_st
RECURSIVE push_new_work_from_front(_, _, _, _)
push_new_work_from_front(new_st, ost, sst, strict) ==
    IF Len(new_st) = 0 THEN GoOn(<<>>, ost, sst)
    ELSE push_new_work_from_front(SubSeq(new_st, 3, Len(new_st)),
                                  ost \o <<new_st[2], new_st[1]>>,
                                  Append(sst, strict), strict)

RECURSIVE push_new_work(_, _, _, _)
push_new_work(new_st, ost, sst, strict) ==
    IF Len(new_st) = 0 THEN GoOn(<<>>, ost, sst)
    ELSE LET n == Len(new_st)
         IN  push_new_work(SubSeq(new_st, 1, n - 2),
                           ost \o <<new_st[n], new_st[n - 1]>>,
                           Append(sst, strict), strict)

\* altered: a leaf difference found while work is deferred defers the pair (None, None)
leaf_differs_with_sentinel(cmp_res, w_left_val, w_right_val, ignore_order, new_st, ost, sst) ==
    IF ignore_order \/ new_st = <<>> THEN Return(cmp_res)
    ELSE GoOn(new_st \o <<NoneEntry, NoneEntry>>, ost, sst)

\* "if new_st is not None: new_st.append(...)": a leaf difference found while work
\* is deferred is deferred too and ends the loop over the items; otherwise it is
\* returned
leaf_differs(cmp_res, w_left_val, w_right_val, ignore_order, new_st, ost, sst) ==
    IF ignore_order \/ new_st = <<>> THEN Return(cmp_res)
    ELSE GoOn(new_st \o <<w_right_val, w_left_val>>, ost, sst)

\* altered: a key of the left array missing on the right returns -1 in both modes
missing_key_returns(ignore_order, new_st, ost, sst) == Return(-1)

\* "if not w_right.isset_index(self, w_key)": -1 when ignore_order, otherwise the
\* pair (None, None) is deferred and the loop over the items ends
missing_key(ignore_order, new_st, ost, sst) ==
    IF ignore_order THEN Return(-1)
    ELSE GoOn(new_st \o <<NoneEntry, NoneEntry>>, ost, sst)

\* after the loop over the items: its return, or the deferred pairs pushed
after_items(r, strict) ==
    IF r.returned THEN r ELSE push_new_work(r.new_st, r.obj_st, r.strict_st, strict)

\* a popped pair that is not two arrays nor two instances
after_leaf(cmp_res, ost, sst) ==
    IF cmp_res # 0 THEN Return(cmp_res) ELSE GoOn(<<>>, ost, sst)

RECURSIVE _compare(_, _, _, _, _)
RECURSIVE _compare_aggregates(_, _, _, _, _)
RECURSIVE array_loop(_, _, _, _, _, _, _, _, _)
RECURSIVE object_loop(_, _, _, _, _, _, _, _)
RECURSIVE run_loop(_, _, _, _)

(***************************************************************************)
(* The loop over the items of two arrays of equal length, from position i. *)
(* new_st = <<>> stands for "new_st is None": once allocated it is never   *)
(* empty inside this loop.  "w_left_val is w_right_val" is the equality of *)
(* the two values: aggregates carry their identity, and two equal scalars  *)
(* compare 0 whether they are one object or two (NaN excepted, which no    *)
(* generated array holds).                                                 *)
(***************************************************************************)
array_loop(w_left, w_right, strict, ignore_order, jit, i, new_st, ost, sst) ==
    IF i > arraylen(w_left) THEN GoOn(new_st, ost, sst)
    ELSE
    LET w_key == w_left.items[i].key
        w_rkey == w_right.items[i].key
        same == SameKey(w_key, w_rkey)
    IN  IF (~same) /\ ~isset_index(w_right, w_key)
        THEN missing_key(ignore_order, new_st, ost, sst)
        ELSE
        LET w_left_val == deref(w_left.items[i].val)
            w_right_val == deref(IF same THEN w_right.items[i].val
                                 ELSE getitem(w_right, w_key))
        IN  IF w_left_val = w_right_val
            THEN array_loop(w_left, w_right, strict, ignore_order, jit, i + 1, new_st, ost, sst)
            ELSE IF IsAggregate(w_left_val) /\ IsAggregate(w_right_val)
            THEN IF ignore_order
                 THEN array_loop(w_left, w_right, strict, ignore_order, jit, i + 1, new_st,
                                 ost \o <<w_left_val, w_right_val>>, Append(sst, strict))
                 ELSE array_loop(w_left, w_right, strict, ignore_order, jit, i + 1,
                                 new_st \o <<w_right_val, w_left_val>>, ost, sst)
            ELSE
            IF _compare(w_left_val, w_right_val, strict, ignore_order, jit) # 0
            THEN leaf_differs(_compare(w_left_val, w_right_val, strict, ignore_order, jit),
                              w_left_val, w_right_val, ignore_order, new_st, ost, sst)
            ELSE array_loop(w_left, w_right, strict, ignore_order, jit, i + 1,
                            new_st, ost, sst)

(***************************************************************************)
(* The loop over the attributes of two instances with as many attributes,  *)
(* from position i.  A name missing on the right returns -1, or, when work *)
(* is already deferred, defers the parallel pair and goes on with it.      *)
(***************************************************************************)
object_loop(left, right, ignore_order, jit, i, new_st, ost, sst) ==
    IF i > Len(left) THEN GoOn(new_st, ost, sst)
    ELSE
    LET key == left[i].key
        r_key == right[i].key
        KeyError == key # r_key /\ ~HasAttr(right, key)
    IN  IF KeyError /\ (ignore_order \/ new_st = <<>>) THEN Return(-1)
        ELSE
        LET new_st1 == IF KeyError THEN new_st \o <<right[i].val, left[i].val>> ELSE new_st
            w_left_val == deref(left[i].val)
            w_right_val == deref(IF key # r_key /\ ~KeyError THEN AttrOf(right, key)
                                 ELSE right[i].val)
        IN  IF w_left_val = w_right_val
            THEN object_loop(left, right, ignore_order, jit, i + 1, new_st1, ost, sst)
            ELSE IF IsAggregate(w_left_val) /\ IsAggregate(w_right_val)
            THEN IF ignore_order
                 THEN object_loop(left, right, ignore_order, jit, i + 1, new_st1,
                                  ost \o <<w_left_val, w_right_val>>, Append(sst, FALSE))
                 ELSE object_loop(left, right, ignore_order, jit, i + 1,
                                  new_st1 \o <<w_right_val, w_left_val>>, ost, sst)
            ELSE
            IF _compare(w_left_val, w_right_val, FALSE, ignore_order, jit) # 0
            THEN leaf_differs(_compare(w_left_val, w_right_val, FALSE, ignore_order, jit),
                              w_left_val, w_right_val, ignore_order, new_st1, ost, sst)
            ELSE object_loop(left, right, ignore_order, jit, i + 1, new_st1, ost, sst)

(***************************************************************************)
(* The body of the main loop of _compare_aggregates for a popped pair and  *)
(* its strict flag, ost and sst being what the pops left on the stacks.    *)
(* The instances are plain ones: w_left.compare raises                     *)
(* InlineObjectComparison.  A reference cell that was pushed is neither an *)
(* array nor an instance by its tag: it reaches the last branch, where     *)
(* _compare dereferences it.                                               *)
(***************************************************************************)
loop_body(w_left, w_right, strict, ost, sst, ignore_order, jit) ==
        IF IsNone(w_left) THEN Return(1)
        ELSE IF IsReference(w_left) \/ IsReference(w_right)
        THEN after_leaf(_compare(w_left, w_right, strict, ignore_order, jit), ost, sst)
        ELSE IF w_left.tp = tp_array /\ w_right.tp = tp_array
        THEN IF w_left = w_right THEN GoOn(<<>>, ost, sst)
             ELSE IF arraylen(w_left) < arraylen(w_right) THEN Return(-1)
             ELSE IF arraylen(w_left) > arraylen(w_right) THEN Return(1)
             ELSE after_items(array_loop(w_left, w_right, strict, ignore_order, jit,
                                         1, <<>>, ost, sst), strict)
        ELSE IF w_left.tp = tp_object /\ w_right.tp = tp_object
        THEN IF w_left = w_right THEN GoOn(<<>>, ost, sst)
             ELSE IF strict \/ w_left.klass # w_right.klass THEN Return(1)
             ELSE IF Len(w_left.attrs) - Len(w_right.attrs) < 0 THEN Return(-1)
             ELSE IF Len(w_left.attrs) - Len(w_right.attrs) > 0 THEN Return(1)
             ELSE after_items(object_loop(w_left.attrs, w_right.attrs, ignore_order, jit,
                                          1, <<>>, ost, sst), FALSE)
        ELSE after_leaf(_compare(w_left, w_right, strict, ignore_order, jit), ost, sst)

\* the main loop, run until it returns
next_iteration(r, ignore_order, jit) ==
    IF r.returned THEN r.res ELSE run_loop(r.obj_st, r.strict_st, ignore_order, jit)

\* w_right = obj_st.pop(); w_left = obj_st.pop(); strict = strict_st.pop()
pop_pair(ost, sst) ==
    [w_left |-> ost[Len(ost) - 1], w_right |-> ost[Len(ost)], strict |-> sst[Len(sst)],
     obj_st |-> SubSeq(ost, 1, Len(ost) - 2), strict_st |-> SubSeq(sst, 1, Len(sst) - 1)]

loop_iteration(p, ignore_order, jit) ==
    loop_body(p.w_left, p.w_right, p.strict, p.obj_st, p.strict_st, ignore_order, jit)

run_loop(ost, sst, ignore_order, jit) ==
    IF Len(ost) = 0 THEN 0
    ELSE next_iteration(loop_iteration(pop_pair(ost, sst), ignore_order, jit),
                        ignore_order, jit)

_compare_aggregates(w_left, w_right, strict, ignore_order, jit) ==
    run_loop(<<deref(w_left), deref(w_right)>>, <<strict>>, ignore_order, jit)

(***************************************************************************)
(* _compare(w_left, w_right, strict, ignore_order).  jit says whether the  *)
(* string lengths are constants for the JIT (jit.isconstant), which opens  *)
(* the single-character fast path.                                         *)
(***************************************************************************)
compare_other(w_left, w_right, ignore_order, jit) ==
    LET left_tp == w_left.tp
        right_tp == w_right.tp
    IN  IF left_tp = tp_null THEN (IF is_true(w_right) THEN -1 ELSE 0)
        ELSE IF right_tp = tp_null THEN (IF is_true(w_left) THEN 1 ELSE 0)
        ELSE IF left_tp = tp_bool \/ right_tp = tp_bool
        THEN my_cmp_bool(is_true(w_left), is_true(w_right), ignore_order)
        ELSE IF left_tp = tp_array THEN 1
        ELSE IF right_tp = tp_array THEN -1
        ELSE IF left_tp = tp_object THEN 1
        ELSE IF right_tp = tp_object THEN -1
        ELSE _compare(as_number(w_left), as_number(w_right), FALSE, ignore_order, jit)

\* compare_converted without the promotion to numbers
compare_converted_bytewise(c_left, c_right, left, right, strict, ignore_order, jit) ==
    my_cmp_str(left, right, ignore_order)

\* the slow path of two strings: as numbers if both are valid numbers and the
\* comparison is loose, byte by byte otherwise
compare_converted(c_left, c_right, left, right, strict, ignore_order, jit) ==
    IF (~strict) /\ c_right.valid /\ c_left.valid
    THEN _compare(c_left.w, c_right.w, FALSE, ignore_order, jit)
    ELSE my_cmp_str(left, right, ignore_order)

\* compare_strings with the fast path comparing ord(left[0]) with right_length
compare_strings_by_length(left, right, strict, ignore_order, jit) ==
    IF (~strict) /\ jit /\ Len(left) = 1 /\ Len(right) = 1
    THEN my_cmp_int(left[1], Len(right), ignore_order)
    ELSE compare_converted(convert_string_to_number(left), convert_string_to_number(right),
                           left, right, strict, ignore_order, jit)

compare_strings(left, right, strict, ignore_order, jit) ==
    IF (~strict) /\ jit /\ Len(left) = 1 /\ Len(right) = 1
    THEN my_cmp_int(left[1], right[1], ignore_order)
    ELSE compare_converted(convert_string_to_number(left), convert_string_to_number(right),
                           left, right, strict, ignore_order, jit)

_compare(w_left0, w_right0, strict, ignore_order, jit) ==
    LET w_left == deref(w_left0)
        w_right == deref(w_right0)
        left_tp == w_left.tp
        right_tp == w_right.tp
    IN  IF strict /\ left_tp # right_tp THEN 1
        ELSE IF \/ left_tp = tp_float /\ right_tp = tp_float
                \/ left_tp = tp_int /\ right_tp = tp_float
                \/ left_tp = tp_float /\ right_tp = tp_int
        THEN my_cmp_float(float_w(w_left), float_w(w_right), ignore_order)
        ELSE IF left_tp = tp_int /\ right_tp = tp_int
        THEN my_cmp_int(w_left.intval, w_right.intval, ignore_order)
        ELSE IF left_tp = tp_array /\ right_tp = tp_array
        THEN IF w_left = w_right THEN 0
             ELSE IF arraylen(w_left) < arraylen(w_right) THEN -1
             ELSE IF arraylen(w_left) > arraylen(w_right) THEN 1
             ELSE _compare_aggregates(w_left, w_right, strict, ignore_order, jit)
        ELSE IF left_tp = tp_null /\ right_tp = tp_null THEN 0
        ELSE IF left_tp = tp_null /\ right_tp = tp_bool
        THEN (IF is_true(w_right) THEN -1 ELSE 0)
        ELSE IF left_tp = tp_bool /\ right_tp = tp_null
        THEN (IF is_true(w_left) THEN 1 ELSE 0)
        ELSE IF left_tp = tp_bool /\ right_tp = tp_bool
        THEN my_cmp_bool(is_true(w_left), is_true(w_right), ignore_order)
        ELSE IF left_tp = tp_str /\ right_tp = tp_str
        THEN compare_strings(w_left.strval, w_right.strval, strict, ignore_order, jit)
        ELSE IF left_tp = tp_null /\ right_tp = tp_str
        THEN my_cmp_str(<<>>, w_right.strval, ignore_order)
        ELSE IF left_tp = tp_str /\ right_tp = tp_null
        THEN my_cmp_str(w_left.strval, <<>>, ignore_order)
        ELSE IF left_tp = tp_object /\ right_tp = tp_null THEN 1
        ELSE IF left_tp = tp_null /\ right_tp = tp_object THEN -1
        ELSE IF left_tp = tp_object /\ right_tp = tp_object
        THEN IF w_left = w_right THEN 0
             ELSE _compare_aggregates(w_left, w_right, strict, ignore_order, jit)
        ELSE compare_other(w_left, w_right, ignore_order, jit)

\* whether _compare hands the pair to _compare_aggregates
EntersAggregates(w_left0, w_right0, strict) ==
    LET w_left == deref(w_left0)
        w_right == deref(w_right0)
    IN  /\ w_left.tp = w_right.tp
        /\ w_left # w_right
        /\ \/ w_left.tp = tp_array /\ arraylen(w_left) = arraylen(w_right)
           \/ w_left.tp = tp_object

(***************************************************************************)
(* Modulo.                                                                 *)
(***************************************************************************)
\* the host's left % right: the remainder has the sign of the divisor
HostMod(left, right) ==
    IF right > 0 THEN left % right ELSE 0 - ((0 - left) % (0 - right))

\* force_int of a value that is not a string
force_int(w_obj) ==
    IF w_obj.tp = tp_int THEN w_obj.intval ELSE as_number(w_obj).intval

Result(w, warned) == [w |-> w, warnings |-> warned]

\* _mod without the correction of the host's remainder
_mod_host_remainder(left, right) ==
    IF right = 0 THEN Result(w_False, <<"Division by zero">>)
    ELSE IF right = -1 THEN Result(W_IntObject(0), <<>>)
    ELSE Result(W_IntObject(HostMod(left, right)), <<>>)

\* _mod warning twice about a zero divisor
_mod_warns_twice(left, right) ==
    IF right = 0 THEN Result(w_False, <<"Division by zero", "Division by zero">>)
    ELSE Result(W_IntObject(0), <<>>)

_mod(left, right) ==
    IF right = 0 THEN Result(w_False, <<"Division by zero">>)
    ELSE IF right = -1 THEN Result(W_IntObject(0), <<>>)
    ELSE LET z == HostMod(left, right)
         IN  IF z # 0 /\ ((left < 0 /\ right > 0) \/ (left > 0 /\ right < 0))
             THEN Result(W_IntObject(z - right), <<>>)
             ELSE Result(W_IntObject(z), <<>>)

ModOperands == {W_IntObject(i) : i \in (0 - MaxInt) .. MaxInt} \cup {w_Null, w_True, w_False}

(***************************************************************************)
(* Shifts.  A machine integer is its word of bits, lowest first, in two's  *)
(* complement; the word is 32 or 64 bits wide, as sys.maxint says.         *)
(***************************************************************************)
WordWidths == {32, 64}
\* MASK_31_63 with the two masks exchanged
MASK_63_31(W) == IF W = 32 THEN 63 ELSE 31

MASK_31_63(W) == IF W = 32 THEN 31 ELSE 63

\* a & mask for mask >= 0, on integers of unbounded width
RECURSIVE BitAnd(_, _)
BitAnd(a, mask) ==
    IF mask = 0 THEN 0
    ELSE (a % 2) * (mask % 2) + 2 * BitAnd(a \div 2, mask \div 2)

RECURSIVE ToBits(_, _)
ToBits(n, W) == IF W = 0 THEN <<>> ELSE <<n % 2>> \o ToBits(n \div 2, W - 1)

\* left << k as an integer of unbounded width: its lowest W + k bits
ShiftLeft(bits, k) == [i \in 1 .. Len(bits) + k |-> IF i <= k THEN 0 ELSE bits[i - k]]
\* left >> k: the sign bit fills from the top
ShiftRight(bits, k) ==
    [i \in 1 .. Len(bits) |-> IF i + k <= Len(bits) THEN bits[i + k] ELSE bits[Len(bits)]]
intmask(bits, W) == SubSeq(bits, 1, W)

\* W_IntObject(z) for a machine word z given by its bits
W_IntWord(bits) == [tp |-> tp_int, intbits |-> bits]

lshift(left, right, W) == W_IntWord(intmask(ShiftLeft(left, BitAnd(right, MASK_31_63(W))), W))
rshift(left, right, W) == W_IntWord(intmask(ShiftRight(left, BitAnd(right, MASK_31_63(W))), W))

\* small integers, sys.maxint, -sys.maxint - 1 and an alternating pattern
Words(W) == {ToBits(n, W) : n \in -2 .. 3}
            \cup {[i \in 1 .. W |-> IF i = W THEN 0 ELSE 1],
                  [i \in 1 .. W |-> IF i = W THEN 1 ELSE 0],
                  [i \in 1 .. W |-> i % 2]}
ShiftCounts == (0 - MaxShift) .. (2 * MaxShift)

(***************************************************************************)
(* Bitwise operators on strings and integers.                              *)
(***************************************************************************)
BitOf(name, x, y) ==
    IF name = "or_" THEN (IF x + y > 0 THEN 1 ELSE 0)
    ELSE IF name = "and_" THEN x * y
    ELSE (x + y) % 2

\* operator.or_ / and_ / xor on non-negative integers
RECURSIVE bitwise_op(_, _, _)
bitwise_op(name, a, b) ==
    IF a = 0 /\ b = 0 THEN 0
    ELSE BitOf(name, a % 2, b % 2) + 2 * bitwise_op(name, a \div 2, b \div 2)

\* or_string stopping at the end of the shorter operand
or_string_shorter(left0, right0) ==
    W_ConstStringObject([i \in 1 .. Min(Len(left0), Len(right0)) |->
                           bitwise_op("or_", left0[i], right0[i])])

or_string(left0, right0) ==
    LET left == IF Len(left0) < Len(right0) THEN right0 ELSE left0
        right == IF Len(left0) < Len(right0) THEN left0 ELSE right0
    IN  W_ConstStringObject([i \in 1 .. Len(left) |->
                               IF i <= Len(right) THEN bitwise_op("or_", left[i], right[i])
                               ELSE left[i]])

string_func(name, left, right) ==
    W_ConstStringObject([i \in 1 .. Min(Len(left), Len(right)) |->
                           bitwise_op(name, left[i], right[i])])

bitwise(name, w_left, w_right) ==
    IF w_left.tp = tp_str /\ w_right.tp = tp_str
    THEN IF name = "or_" THEN or_string(w_left.strval, w_right.strval)
         ELSE string_func(name, w_left.strval, w_right.strval)
    ELSE W_IntObject(bitwise_op(name, w_left.intval, w_right.intval))

\* bytes NUL A B a and 0xFF; "abcd" for the longer tail
BitBytes == {0, 65, 66, 97, 255}
BitOperands == {W_ConstStringObject(s) :
                  s \in SeqsUpTo(BitBytes, MaxBitLen) \cup {<<97, 98, 99, 100>>}}
               \cup {W_IntObject(i) : i \in 0 .. 3}
BitPairs == {p \in BitOperands \X BitOperands : p[1].tp = p[2].tp}

(***************************************************************************)
(* slice(w_arr, start, shift, keep_keys, keep_str_keys).  The result is a  *)
(* new array built from the collected pairs.                               *)
(***************************************************************************)
new_array_from_pairs(res_arr) == W_ArrayObject(200, res_arr)

\* slice_pair keeping every key
slice_pair_with_key(item, next_idx, keep_keys, keep_str_keys) == item

\* the pair appended to res_arr for the item at a position inside the window
slice_pair(item, next_idx, keep_keys, keep_str_keys) ==
    IF keep_keys \/ (keep_str_keys /\ item.key.tp = tp_str) THEN item
    ELSE Item(W_IntObject(next_idx), item.val)

\* whether next_idx is counted up for that item
slice_renumbers(item, keep_keys, keep_str_keys) ==
    ~(keep_keys \/ (keep_str_keys /\ item.key.tp = tp_str))

\* "while not itr.done()": idx is the 0-based position of the next item
RECURSIVE slice_loop(_, _, _, _, _, _, _, _)
slice_loop(items, start, shift_n, keep_keys, keep_str_keys, idx, next_idx, res_arr) ==
    IF idx >= Len(items) THEN res_arr
    ELSE IF start <= idx /\ idx < start + shift_n
    THEN slice_loop(items, start, shift_n, keep_keys, keep_str_keys, idx + 1,
                    IF slice_renumbers(items[idx + 1], keep_keys, keep_str_keys)
                    THEN next_idx + 1 ELSE next_idx,
                    Append(res_arr, slice_pair(items[idx + 1], next_idx,
                                               keep_keys, keep_str_keys)))
    ELSE slice_loop(items, start, shift_n, keep_keys, keep_str_keys, idx + 1,
                    next_idx, res_arr)

\* start and shift once the negative ones are counted from the end
slice_start(w_arr, start) == IF start < 0 THEN arraylen(w_arr) + start ELSE start
slice_shift(w_arr, start, shift_n) ==
    IF shift_n < 0 THEN arraylen(w_arr) + shift_n - slice_start(w_arr, start) ELSE shift_n

\* slice taking one item more than the window holds
slice_one_more(w_arr, start, shift_n, keep_keys, keep_str_keys) ==
    IF shift_n = 0 \/ arraylen(w_arr) = 0 \/ start > arraylen(w_arr)
    THEN new_array_from_pairs(<<>>)
    ELSE new_array_from_pairs(
             slice_loop(w_arr.items, slice_start(w_arr, start),
                        slice_shift(w_arr, start, shift_n) + 1,
                        keep_keys, keep_str_keys, 0, 0, <<>>))

slice(w_arr, start, shift_n, keep_keys, keep_str_keys) ==
    IF shift_n = 0 \/ arraylen(w_arr) = 0 \/ start > arraylen(w_arr)
    THEN new_array_from_pairs(<<>>)
    ELSE new_array_from_pairs(
             slice_loop(w_arr.items, slice_start(w_arr, start),
                        slice_shift(w_arr, start, shift_n),
                        keep_keys, keep_str_keys, 0, 0, <<>>))

\* the arrays given to slice: the lists [10, 20, ...] of up to MaxSliceLen
\* values, and arrays of those values under integer and string keys
SliceKeySeqs == {ListKeys(n) : n \in 0 .. MaxSliceLen}
                \cup {<<StrKey(<<97>>), StrKey(<<98>>)>>,
                      <<IntKey(0), StrKey(<<97>>), IntKey(1)>>,
                      <<IntKey(5), StrKey(<<97>>), IntKey(7), IntKey(9)>>}
SliceArrays == {W_ArrayObject(1, [i \in 1 .. Len(ks) |-> Item(ks[i], W_IntObject(10 * i))]) :
                  ks \in SliceKeySeqs}
SliceInts == (0 - (MaxSliceLen + 1)) .. (MaxSliceLen + 1)


(***************************************************************************)
(* Callback resolution.  The interpreter's tables are a small world: one   *)
(* function f, one class C with a public method m and a private method p,  *)
(* and a class K whose instances are invokable.  A call either returns a   *)
(* value or raises an exception carrying a message.                        *)
(***************************************************************************)
Returned(v) == [raised |-> FALSE, value |-> v]
Raised(exc, msg) == [raised |-> TRUE, exc |-> exc, msg |-> msg]

ChColon == 58

\* the text of a byte
chr(c) ==
    CASE c = 49 -> "1"
      [] c = ChColon -> ":"
      [] c = 67 -> "C"
      [] c = 68 -> "D"
      [] c = 102 -> "f"
      [] c = 103 -> "g"
      [] c = 109 -> "m"
      [] c = 112 -> "p"
      [] OTHER -> "?"

RECURSIVE text_of(_)
text_of(bytes) == IF bytes = <<>> THEN "" ELSE chr(Head(bytes)) \o text_of(Tail(bytes))

\* str_w of the values a callback array can hold
str_w(w) ==
    IF w.tp = tp_str THEN w.strval
    ELSE IF w.tp = tp_int /\ w.intval \in 0 .. 9 THEN <<48 + w.intval>>
    ELSE <<>>

IsLetter(c) == c \in 97 .. 122 \/ c \in 65 .. 90 \/ c = 95 \/ c = 92
is_valid_clsname(name) ==
    /\ Len(name) # 0
    /\ IsLetter(name[1])
    /\ \A i \in 2 .. Len(name) : IsLetter(name[i]) \/ name[i] \in 48 .. 57

\* name.find('::'): the first position (from 0) of the separator, or -1
find_sep(name) ==
    LET hits == {i \in 1 .. Len(name) - 1 : name[i] = ChColon /\ name[i + 1] = ChColon}
    IN IF hits = {} THEN 0 - 1 ELSE (CHOOSE i \in hits : \A j \in hits : i <= j) - 1

FunctionNames == {<<102>>}
ClassNames == {<<67>>}
PublicMethods == {<<109>>}
PrivateMethods == {<<112>>}
InvokableClasses == {"K"}
ContextClasses == {"", "C"}

lookup_function(name) == IF name \in FunctionNames THEN [func |-> text_of(name)] ELSE NoneEntry
lookup_class_or_intf(clsname) == IF clsname \in ClassNames THEN [klass |-> text_of(clsname)] ELSE NoneEntry

\* VisibilityError.msg_callback(static)
msg_callback(clsname, methname, static, private) ==
    IF private
    THEN "cannot access private method " \o clsname \o "::" \o methname \o "()"
    ELSE "class '" \o clsname \o "' does not have a method '" \o methname \o "'"

\* method lookup by a class (static) or by an instance, under the caller's context
lookup_method(clsname, methname, contextclass, static) ==
    IF methname \in PublicMethods
    THEN Returned([meth |-> text_of(methname), klass |-> clsname])
    ELSE IF methname \in PrivateMethods
    THEN IF contextclass = clsname
         THEN Returned([meth |-> text_of(methname), klass |-> clsname])
         ELSE Raised("VisibilityError", msg_callback(clsname, text_of(methname), static, TRUE))
    ELSE Raised("VisibilityError", msg_callback(clsname, text_of(methname), static, FALSE))

getstaticmeth(klass, methname, contextclass) == lookup_method(klass.klass, methname, contextclass, TRUE)
getmeth(w_instance, methname, contextclass) == lookup_method(w_instance.klass, methname, contextclass, FALSE)
get_callable(w_obj) == IF w_obj.klass \in InvokableClasses THEN [func |-> "__invoke"] ELSE NoneEntry

\* except VisibilityError as e: raise InvalidCallback(e.msg_callback(...))
visibility_to_invalid(r) ==
    IF r.raised /\ r.exc = "VisibilityError" THEN Raised("InvalidCallback", r.msg) ELSE r

_get_callback_from_class(clsname, methname, contextclass) ==
    IF IsNone(lookup_class_or_intf(clsname))
    THEN Raised("InvalidCallback", "class '" \o text_of(clsname) \o "' not found")
    ELSE visibility_to_invalid(getstaticmeth(lookup_class_or_intf(clsname), methname, contextclass))

_get_callback_from_string(name, contextclass) ==
    IF find_sep(name) >= 0
    THEN _get_callback_from_class(SubSeq(name, 1, find_sep(name)),
                                  SubSeq(name, find_sep(name) + 3, Len(name)),
                                  contextclass)
    ELSE IF ~IsNone(lookup_function(name))
    THEN Returned(lookup_function(name))
    ELSE Raised("InvalidCallback",
                "function '" \o text_of(name) \o "' not found or invalid function name")

\* altered: the VisibilityError of the method lookup is let through
_get_callback_from_instance_unguarded(w_instance, methname, contextclass) ==
    getmeth(w_instance, methname, contextclass)

_get_callback_from_instance(w_instance, methname, contextclass) ==
    visibility_to_invalid(getmeth(w_instance, methname, contextclass))

get_callback_from_array(w_instance, w_name, contextclass) ==
    IF w_instance.tp = tp_object
    THEN _get_callback_from_instance(w_instance, str_w(w_name), contextclass)
    ELSE IF ~is_valid_clsname(str_w(w_instance))
    THEN Raised("InvalidCallback", "first array member is not a valid class name or object")
    ELSE _get_callback_from_class(str_w(w_instance), str_w(w_name), contextclass)

_get_callback(w_obj, contextclass) ==
    IF w_obj.tp = tp_str
    THEN _get_callback_from_string(str_w(w_obj), contextclass)
    ELSE IF w_obj.tp = tp_array
    THEN IF arraylen(w_obj) # 2
         THEN Raised("InvalidCallback", "array must have exactly two members")
         ELSE get_callback_from_array(deref(getitem(w_obj, W_IntObject(0))),
                                      getitem(w_obj, W_IntObject(1)), contextclass)
    ELSE IF w_obj.tp = tp_object /\ ~IsNone(get_callable(w_obj))
    THEN Returned(get_callable(w_obj))
    ELSE Raised("InvalidCallback", "no array or string given")

err_msg(fname, arg_no, msg) ==
    fname \o "() expects parameter " \o ToString(arg_no) \o " to be a valid callback, " \o msg

\* what get_callback does with the outcome r of _get_callback
get_callback_outcome(fname, arg_no, r, give_warning) ==
    IF r.raised /\ r.exc = "InvalidCallback"
    THEN Result(Returned(NoneEntry),
                IF give_warning THEN <<err_msg(fname, arg_no, r.msg)>> ELSE <<>>)
    ELSE Result(r, <<>>)

get_callback(fname, arg_no, w_obj, give_warning, contextclass) ==
    get_callback_outcome(fname, arg_no, _get_callback(w_obj, contextclass), give_warning)

\* the values given as callbacks
CallbackNames ==
    {<<102>>, <<103>>, <<67, ChColon, ChColon, 109>>, <<67, ChColon, ChColon, 112>>,
     <<67, ChColon, ChColon, 103>>, <<68, ChColon, ChColon, 109>>, <<67, ChColon, 109>>,
     <<ChColon, ChColon>>, <<>>}
CallbackMembers ==
    {W_ConstStringObject(n) : n \in {<<67>>, <<68>>, <<49, 67>>, <<109>>, <<112>>, <<103>>, <<>>}}
    \cup {W_InstanceObject(1, "C", <<>>), W_InstanceObject(1, "K", <<>>),
          W_IntObject(1), w_Null}
CallbackArrays ==
    {ListOf(q) : q \in SeqsUpTo(CallbackMembers, 2)}
    \cup {ListOf(<<W_Reference(c), W_ConstStringObject(n)>>) :
            c \in {"one", "obj"}, n \in {<<109>>, <<112>>}}
    \cup {W_ArrayObject(1, <<Item(IntKey(1), a), Item(IntKey(0), b)>>) :
            a \in {W_ConstStringObject(<<109>>)}, b \in {W_InstanceObject(1, "C", <<>>)}}
    \cup {W_ArrayObject(1, <<Item(StrKey(<<102>>), W_ConstStringObject(<<67>>)),
                             Item(IntKey(1), W_ConstStringObject(<<109>>))>>)}
CallbackValues ==
    {W_ConstStringObject(n) : n \in CallbackNames}
    \cup CallbackArrays
    \cup {W_InstanceObject(1, "K", <<>>), W_InstanceObject(1, "C", <<>>),
          W_IntObject(1), w_Null, w_True}
CallbackCallers == {"usort", "array_map"}
CallbackArgNos == {1, 2}


(***************************************************************************)
(* The constants table.  An OrderedDict is the sequence of its items in    *)
(* insertion order; constant names are byte strings.                       *)
(***************************************************************************)
dict_has(dct, k) == \E i \in 1 .. Len(dct) : dct[i].key = k

dict_index(dct, k) == CHOOSE i \in 1 .. Len(dct) : dct[i].key = k

\* dct[k] = v: an existing key keeps its place and takes the new value
dict_set(dct, k, v) ==
    IF dict_has(dct, k)
    THEN SubSeq(dct, 1, dict_index(dct, k) - 1) \o <<Item(k, v)>>
         \o SubSeq(dct, dict_index(dct, k) + 1, Len(dct))
    ELSE Append(dct, Item(k, v))

dict_get(dct, k) == dct[dict_index(dct, k)].val
dict_keys(dct) == [i \in 1 .. Len(dct) |-> dct[i].key]

lower(c) == IF c \in 65 .. 90 THEN c + 32 ELSE c
upper(c) == IF c \in 97 .. 122 THEN c - 32 ELSE c

\* cases[i][(x >> i) & 1] for every letter of the name
any_case_key(name, x) ==
    [i \in 1 .. Len(name) |->
        IF (x \div (2 ^ (i - 1))) % 2 = 0 THEN lower(name[i]) ELSE upper(name[i])]

\* the items the loop enters, for x = 0 .. (1 << len(name)) - 1 in this order
any_case_items(name, w_value) ==
    [y \in 1 .. 2 ^ Len(name) |-> Item(any_case_key(name, y - 1), w_value)]

is_any_case_key(name, k) == \E x \in 0 .. 2 ^ Len(name) - 1 : k = any_case_key(name, x)

\* the loop as a whole: its keys differ from one another, so every key already in
\* outdict takes w_value where it stands and the others are appended in the order of x
any_case_loop(name, w_value, outdict) ==
    [i \in 1 .. Len(outdict) |->
        IF is_any_case_key(name, outdict[i].key) THEN Item(outdict[i].key, w_value)
        ELSE outdict[i]]
    \o SelectSeq(any_case_items(name, w_value), LAMBDA it : ~dict_has(outdict, it.key))

\* altered: only the all-lower and the all-upper spelling are entered
_setup_constant_two_cases(name, w_value, outdict) ==
    dict_set(dict_set(outdict, any_case_key(name, 0), w_value),
             any_case_key(name, 2 ^ Len(name) - 1), w_value)

_setup_constant_any_case(name, w_value, outdict) == any_case_loop(name, w_value, outdict)

RECURSIVE module_constants(_, _, _)
module_constants(lst, dct, i) ==
    IF i > Len(lst) THEN dct
    ELSE module_constants(lst, dict_set(dct, lst[i].key, lst[i].val), i + 1)

RECURSIVE constants_by_module(_, _, _)
constants_by_module(modules, dct, i) ==
    IF i > Len(modules) THEN dct
    ELSE constants_by_module(modules, module_constants(modules[i], dct, 1), i + 1)

NAME_true == <<116, 114, 117, 101>>
NAME_false == <<102, 97, 108, 115, 101>>
NAME_null == <<110, 117, 108, 108>>
NAME_PHP_INT_MAX == <<80, 72, 80, 95, 73, 78, 84, 95, 77, 65, 88>>
NAME_PHP_INT_SIZE == <<80, 72, 80, 95, 73, 78, 84, 95, 83, 73, 90, 69>>

literal_constants(dct) ==
    _setup_constant_any_case(NAME_null, w_Null,
        _setup_constant_any_case(NAME_false, w_False,
            _setup_constant_any_case(NAME_true, w_True, dct)))

\* sys.maxint of a build whose word is W bits wide, by its bits
maxint_word(W) == [i \in 1 .. W |-> IF i = W THEN 0 ELSE 1]

\* W is the word width of the build: sys.maxint < 2 ** 32 exactly when W = 32
setup_constants(modules, W) ==
    literal_constants(
        dict_set(dict_set(constants_by_module(modules, <<>>, 1),
                          NAME_PHP_INT_MAX, W_IntWord(maxint_word(W))),
                 NAME_PHP_INT_SIZE, W_IntObject(IF W = 32 THEN 4 ELSE 8)))

\* what a module may contribute: TRUE, Null, E_ALL, e_all, and PHP_INT_SIZE again
ModuleConstants ==
    {<<>>,
     <<Item(<<84, 82, 85, 69>>, W_IntObject(0))>>,
     <<Item(<<69, 95, 65, 76, 76>>, W_IntObject(7)), Item(<<78, 117, 108, 108>>, W_IntObject(5))>>,
     <<Item(<<101, 95, 97, 108, 108>>, W_IntObject(8)), Item(<<69, 95, 65, 76, 76>>, W_IntObject(7))>>,
     <<Item(NAME_PHP_INT_SIZE, W_IntObject(2)), Item(<<84, 82, 85, 69>>, W_IntObject(0)),
       Item(<<101, 95, 97, 108, 108>>, W_IntObject(8))>>}
MaxModules == 2
ModuleLists == SeqsUpTo(ModuleConstants, MaxModules)


(***************************************************************************)
(* Array iterators and the scope "with space.iter(w_arr) as itr".  An      *)
(* iterator is a mutable object: it lives in the heap.                     *)
(***************************************************************************)
ArrayIterator(w_arr) == [valid |-> TRUE, index |-> 0, finish_idx |-> arraylen(w_arr)]
iter_done(itr) == itr.index >= itr.finish_idx
iter_next(itr) == [itr EXCEPT !.index = itr.index + 1]
mark_invalid(itr) == [itr EXCEPT !.valid = FALSE]
\* an iterator can be asked for its next item while it is valid and not done
iter_usable(itr) == itr.valid /\ ~iter_done(itr)

create_iter(w_arr) == ArrayIterator(deref(w_arr))

\* ObjSpaceWithIter.__exit__: its body is "pass"
ObjSpaceWithIter__exit__(itr) == itr

IterArrays == {a \in SliceArrays : arraylen(a) <= MaxLen} \cup {W_Reference("ca")}


(***************************************************************************)
(* setitem.  Arrays are mutable objects in the heap; a holder of an array  *)
(* holds its address, and the id of an array is its address.               *)
(***************************************************************************)
MaxSetitems == 2    \* setitem calls made while the original array is held

\* w_arr.copy(): a new array with the same items, at the next free address
copy(h, addr) == Append(h, W_ArrayObject(Len(h) + 1, h[addr].items))

\* the items after array[w_item] = w_newvalue: an existing key keeps its place
items_set(items, w_item, w_newvalue) ==
    IF \E i \in 1 .. Len(items) : items[i].key = w_item
    THEN [i \in 1 .. Len(items) |->
            IF items[i].key = w_item THEN Item(w_item, w_newvalue) ELSE items[i]]
    ELSE Append(items, Item(w_item, w_newvalue))

\* w_arr.setitem2_maybe_inplace(space, w_item, w_newvalue): the array at addr is
\* written in place and is itself the result
setitem2_maybe_inplace(h, addr, w_item, w_newvalue) ==
    [heap |-> [h EXCEPT ![addr] = W_ArrayObject(addr, items_set(h[addr].items, w_item, w_newvalue))],
     w_arr |-> addr]

\* altered: the write goes to the array that was given, without a copy
setitem_without_copy(h, w_obj, w_item, w_newvalue) ==
    setitem2_maybe_inplace(h, w_obj, w_item, w_newvalue)

setitem(h, w_obj, w_item, w_newvalue) ==
    setitem2_maybe_inplace(copy(h, w_obj), Len(copy(h, w_obj)), w_item, w_newvalue)

SetitemArrays == {a \in SliceArrays : arraylen(a) <= MaxLen + 1}
SetitemKeys == {IntKey(0), IntKey(1), IntKey(7), StrKey(<<97>>)}
SetitemValues == {W_IntObject(99), ListOf(<<W_IntObject(1)>>)}


(***************************************************************************)
(* force_int of a string.                                                  *)
(***************************************************************************)
MaxIntStrLen == 3   \* longest string given to force_int

\* the for loop: the digits and signs from position i up to the first other character
RECURSIVE collect_decstr(_, _)
collect_decstr(s, i) ==
    IF i <= Len(s) /\ (s[i] \in Digits \/ s[i] \in ChMinus \/ s[i] \in ChPlus)
    THEN <<s[i]>> \o collect_decstr(s, i + 1)
    ELSE <<>>

\* the host's int(decstr) for a text of digits and signs: one optional sign, then
\* at least one digit; anything else raises ValueError
host_int(decstr) ==
    IF decstr # <<>> /\ decstr[1] \in ChMinus \cup ChPlus
    THEN IF Len(decstr) >= 2 /\ ScanDigits(decstr, 2) = Len(decstr) + 1
         THEN Returned(IF decstr[1] \in ChMinus
                       THEN 0 - DigitsVal(decstr, 2, Len(decstr) + 1)
                       ELSE DigitsVal(decstr, 2, Len(decstr) + 1))
         ELSE Raised("ValueError", "invalid literal for int()")
    ELSE IF decstr # <<>> /\ ScanDigits(decstr, 1) = Len(decstr) + 1
    THEN Returned(DigitsVal(decstr, 1, Len(decstr) + 1))
    ELSE Raised("ValueError", "invalid literal for int()")

_force_int_from_str(s) ==
    IF collect_decstr(s, SkipWhitespace(s, 1)) = <<>> THEN Returned(0)
    ELSE host_int(collect_decstr(s, SkipWhitespace(s, 1)))

\* force_int with its string branch; the other branches hand back the host integer
force_int_outcome(w_obj) ==
    IF w_obj.tp = tp_str THEN _force_int_from_str(w_obj.strval) ELSE Returned(force_int(w_obj))

\* the characters 1, 2, -, +, a and the blank
IntStrChars == {49, 50, 45, 43, 97, 32}
IntStrings == SeqsUpTo(IntStrChars, MaxIntStrLen) \cup {<<49, 50, 97, 98, 99>>}
ForceIntValues == {W_ConstStringObject(t) : t \in IntStrings}
                  \cup {W_IntObject(5), w_True, w_Null}


(***************************************************************************)
(* Type names.  A text is its sequence of byte codes.                      *)
(***************************************************************************)
\* in the order of the tags 0 .. 15
TYPENAMES ==
    <<
      <<105, 110, 116, 101, 103, 101, 114>>,    \* integer
      <<100, 111, 117, 98, 108, 101>>,    \* double
      <<115, 116, 114, 105, 110, 103>>,    \* string
      <<97, 114, 114, 97, 121>>,    \* array
      <<78, 85, 76, 76>>,    \* NULL
      <<98, 111, 111, 108, 101, 97, 110>>,    \* boolean
      <<111, 98, 106, 101, 99, 116>>,    \* object
      <<114, 101, 115, 111, 117, 114, 99, 101>>,    \* resource
      <<114, 101, 115, 111, 117, 114, 99, 101>>,    \* resource
      <<114, 101, 115, 111, 117, 114, 99, 101>>,    \* resource
      <<114, 101, 115, 111, 117, 114, 99, 101>>,    \* resource
      <<114, 101, 115, 111, 117, 114, 99, 101>>,    \* resource
      <<99, 111, 110, 115, 116, 97, 110, 116>>,    \* constant
      <<100, 101, 108, 97, 121, 101, 100, 32, 99, 111, 110, 115, 116, 97, 110, 116>>,    \* delayed constant
      <<114, 101, 115, 111, 117, 114, 99, 101>>,    \* resource
      <<114, 101, 115, 111, 117, 114, 99, 101>>>>    \* resource

\* str.lower()
str_lower(t) == [i \in 1 .. Len(t) |-> lower(t[i])]

\* altered: the entry of the table as it is listed
get_type_name_as_listed(tp) == TYPENAMES[tp + 1]

get_type_name(tp) == str_lower(TYPENAMES[tp + 1])

\* w_obj.getclass().name
class_name(w_obj) ==
    CASE w_obj.klass = "A" -> <<65>>
      [] w_obj.klass = "B" -> <<66>>
      [] w_obj.klass = "C" -> <<67>>
      [] OTHER -> <<75>>

gettypename(w_obj) ==
    IF deref(w_obj).tp = tp_object
    THEN <<105, 110, 115, 116, 97, 110, 99, 101, 32, 111, 102, 32>> \o class_name(deref(w_obj))    \* 'instance of '
    ELSE str_lower(TYPENAMES[deref(w_obj).tp + 1])

TypeTags == 0 .. 15
TypeNameValues ==
    {W_IntObject(1), W_FloatObject(15, 1), W_NaN, W_ConstStringObject(<<97>>), w_Null,
     w_True, w_False, W_FileResource(1), ListOf(<<>>), ListOf(<<W_IntObject(1)>>),
     W_InstanceObject(1, "A", <<>>), W_InstanceObject(2, "B", <<>>), ObjP(1, "A", 1),
     W_Reference("one"), W_Reference("obj"), W_Reference("ca")}

(***************************************************************************)
(* The state machine.                                                      *)
(***************************************************************************)
NoCall == [op |-> "none"]

\* a host integer handed back to the caller, as _compare returns one
PyInt(n) == [int |-> n]

Init ==
    /\ pc = "idle"
    /\ call = NoCall
    /\ ret = NoneEntry
    /\ obj_st = <<>>
    /\ strict_st = <<>>
    /\ popped = NoneEntry
    /\ warnings = <<>>
    /\ heap = <<>>

\* space._compare(w_left, w_right, strict, ignore_order)
compare(w_left, w_right, strict, ignore_order, jit) ==
    /\ pc = "idle"
    /\ call' = [op |-> "compare", w_left |-> w_left, w_right |-> w_right,
                strict |-> strict, ignore_order |-> ignore_order]
    /\ warnings' = <<>>
    /\ IF EntersAggregates(w_left, w_right, strict)
       THEN /\ pc' = "loop"
            /\ obj_st' = <<deref(w_left), deref(w_right)>>
            /\ strict_st' = <<strict>>
            /\ ret' = NoneEntry
       ELSE /\ pc' = "done"
            /\ ret' = PyInt(_compare(w_left, w_right, strict, ignore_order, jit))
            /\ UNCHANGED <<obj_st, strict_st>>
    /\ UNCHANGED <<popped, heap>>

\* "while len(obj_st) > 0" finds work: the pair and its flag are popped
compare_aggregates_pop ==
    /\ pc = "loop"
    /\ Len(obj_st) > 0
    /\ pc' = "body"
    /\ popped' = [w_left |-> pop_pair(obj_st, strict_st).w_left,
                  w_right |-> pop_pair(obj_st, strict_st).w_right,
                  strict |-> pop_pair(obj_st, strict_st).strict]
    /\ obj_st' = pop_pair(obj_st, strict_st).obj_st
    /\ strict_st' = pop_pair(obj_st, strict_st).strict_st
    /\ UNCHANGED <<call, ret, warnings, heap>>

\* the body of the loop for the popped pair: it returns, or it leaves new work
\* on the stacks and goes back to the loop's test
compare_aggregates_body(jit) ==
    /\ pc = "body"
    /\ \E r \in {loop_body(popped.w_left, popped.w_right, popped.strict,
                            obj_st, strict_st, call.ignore_order, jit)} :
          IF r.returned
          THEN /\ pc' = "done"
               /\ ret' = PyInt(r.res)
               /\ obj_st' = <<>>
               /\ strict_st' = <<>>
          ELSE /\ pc' = "loop"
               /\ ret' = ret
               /\ obj_st' = r.obj_st
               /\ strict_st' = r.strict_st
    /\ popped' = NoneEntry
    /\ UNCHANGED <<call, warnings, heap>>

\* the loop ends with the stack empty: return 0
compare_aggregates_exit ==
    /\ pc = "loop"
    /\ Len(obj_st) = 0
    /\ pc' = "done"
    /\ ret' = PyInt(0)
    /\ UNCHANGED <<call, obj_st, strict_st, popped, warnings, heap>>

\* space.mod(w_left, w_right)
mod(w_left, w_right) ==
    /\ pc = "idle"
    /\ call' = [op |-> "mod", w_left |-> w_left, w_right |-> w_right]
    /\ LET r == _mod(force_int(w_left), force_int(w_right))
       IN  /\ ret' = r.w
           /\ warnings' = r.warnings
    /\ pc' = "done"
    /\ UNCHANGED <<obj_st, strict_st, popped, heap>>

\* space.lshift / space.rshift on a build of word width W, given integers:
\* force_int hands back their machine words
shift(name, left, right, W) ==
    /\ pc = "idle"
    /\ call' = [op |-> name, left |-> left, right |-> right, W |-> W]
    /\ ret' = IF name = "lshift" THEN lshift(left, right, W) ELSE rshift(left, right, W)
    /\ warnings' = <<>>
    /\ pc' = "done"
    /\ UNCHANGED <<obj_st, strict_st, popped, heap>>

\* space.or_ / space.and_ / space.xor
bitwise_call(name, w_left, w_right) ==
    /\ pc = "idle"
    /\ call' = [op |-> name, w_left |-> w_left, w_right |-> w_right]
    /\ ret' = bitwise(name, w_left, w_right)
    /\ warnings' = <<>>
    /\ pc' = "done"
    /\ UNCHANGED <<obj_st, strict_st, popped, heap>>

\* space.slice(w_arr, start, shift, keep_keys, keep_str_keys)
slice_call(w_arr, start, shift_n, keep_keys, keep_str_keys) ==
    /\ pc = "idle"
    /\ call' = [op |-> "slice", w_arr |-> w_arr, start |-> start, shift |-> shift_n,
                keep_keys |-> keep_keys, keep_str_keys |-> keep_str_keys]
    /\ ret' = slice(w_arr, start, shift_n, keep_keys, keep_str_keys)
    /\ warnings' = <<>>
    /\ pc' = "done"
    /\ UNCHANGED <<obj_st, strict_st, popped, heap>>

\* space.get_callback(fname, arg_no, w_obj, give_warning)
get_callback_call(fname, arg_no, w_obj, give_warning, contextclass) ==
    /\ pc = "idle"
    /\ call' = [op |-> "get_callback", fname |-> fname, arg_no |-> arg_no, w_obj |-> w_obj,
                give_warning |-> give_warning, contextclass |-> contextclass]
    /\ ret' = get_callback(fname, arg_no, w_obj, give_warning, contextclass).w
    /\ warnings' = get_callback(fname, arg_no, w_obj, give_warning, contextclass).warnings
    /\ pc' = "done"
    /\ UNCHANGED <<obj_st, strict_st, popped, heap>>

\* ObjSpace.setup_constants(), run by the constructor
setup_constants_call(modules, W) ==
    /\ pc = "idle"
    /\ call' = [op |-> "setup_constants", modules |-> modules, W |-> W]
    /\ ret' = [dct |-> setup_constants(modules, W),
               prebuilt_constants |-> dict_keys(setup_constants(modules, W))]
    /\ pc' = "done"
    /\ warnings' = <<>>
    /\ UNCHANGED <<obj_st, strict_st, popped, heap>>

\* with space.iter(w_arr) as itr: the iterator is created and the body entered
with_iter_enter(w_arr) ==
    /\ pc = "idle"
    /\ call' = [op |-> "iter", w_arr |-> w_arr]
    /\ heap' = <<create_iter(w_arr)>>
    /\ pc' = "with_body"
    /\ ret' = NoneEntry
    /\ warnings' = <<>>
    /\ UNCHANGED <<obj_st, strict_st, popped>>

\* the body takes the next item
with_iter_next_item ==
    /\ pc = "with_body"
    /\ iter_usable(heap[1])
    /\ heap' = <<iter_next(heap[1])>>
    /\ UNCHANGED <<pc, call, ret, obj_st, strict_st, popped, warnings>>

\* the body ends and the scope is left
with_iter_exit ==
    /\ pc = "with_body"
    /\ heap' = <<ObjSpaceWithIter__exit__(heap[1])>>
    /\ ret' = Returned(NoneEntry)
    /\ pc' = "done"
    /\ UNCHANGED <<call, obj_st, strict_st, popped, warnings>>

\* the body raises: __exit__ runs and returns None, so the exception goes on
with_iter_raise ==
    /\ pc = "with_body"
    /\ heap' = <<ObjSpaceWithIter__exit__(heap[1])>>
    /\ ret' = Raised("Exception", "")
    /\ pc' = "done"
    /\ UNCHANGED <<call, obj_st, strict_st, popped, warnings>>

\* code after the scope that kept the iterator takes a next item from it
iter_next_item_after_scope ==
    /\ pc = "done"
    /\ call.op = "iter"
    /\ iter_usable(heap[1])
    /\ heap' = <<iter_next(heap[1])>>
    /\ UNCHANGED <<pc, call, ret, obj_st, strict_st, popped, warnings>>

\* an array comes to be held by the caller and by others
share_array(w_arr) ==
    /\ pc = "idle"
    /\ call' = [op |-> "setitem", original |-> w_arr, ncalls |-> 0,
                w_obj |-> 0, w_item |-> w_Null, w_newvalue |-> w_Null]
    /\ heap' = <<w_arr>>
    /\ ret' = 0
    /\ pc' = "holding"
    /\ warnings' = <<>>
    /\ UNCHANGED <<obj_st, strict_st, popped>>

\* space.setitem(w_obj, w_item, w_newvalue) on the original or on an earlier result
setitem_call(w_obj, w_item, w_newvalue) ==
    /\ pc = "holding"
    /\ call.ncalls < MaxSetitems
    /\ w_obj \in 1 .. Len(heap)
    /\ call' = [call EXCEPT !.ncalls = call.ncalls + 1, !.w_obj = w_obj,
                            !.w_item = w_item, !.w_newvalue = w_newvalue]
    /\ heap' = setitem(heap, w_obj, w_item, w_newvalue).heap
    /\ ret' = setitem(heap, w_obj, w_item, w_newvalue).w_arr
    /\ UNCHANGED <<pc, obj_st, strict_st, popped, warnings>>

\* the holders let go of their arrays
release_arrays ==
    /\ pc = "holding"
    /\ pc' = "done"
    /\ UNCHANGED <<call, ret, obj_st, strict_st, popped, warnings, heap>>

\* space.force_int(w_obj)
force_int_call(w_obj) ==
    /\ pc = "idle"
    /\ call' = [op |-> "force_int", w_obj |-> w_obj]
    /\ ret' = force_int_outcome(w_obj)
    /\ pc' = "done"
    /\ warnings' = <<>>
    /\ UNCHANGED <<obj_st, strict_st, popped, heap>>

\* space.get_type_name(tp)
get_type_name_call(tp) ==
    /\ pc = "idle"
    /\ call' = [op |-> "get_type_name", tp |-> tp]
    /\ ret' = get_type_name(tp)
    /\ pc' = "done"
    /\ warnings' = <<>>
    /\ UNCHANGED <<obj_st, strict_st, popped, heap>>

\* space.gettypename(w_obj)
gettypename_call(w_obj) ==
    /\ pc = "idle"
    /\ call' = [op |-> "gettypename", w_obj |-> w_obj]
    /\ ret' = gettypename(w_obj)
    /\ pc' = "done"
    /\ warnings' = <<>>
    /\ UNCHANGED <<obj_st, strict_st, popped, heap>>

\* the call returns to the interpreter
return_to_caller ==
    /\ pc = "done"
    /\ pc' = "idle"
    /\ call' = NoCall
    /\ ret' = NoneEntry
    /\ obj_st' = <<>>
    /\ strict_st' = <<>>
    /\ popped' = NoneEntry
    /\ warnings' = <<>>
    /\ heap' = <<>>

Next ==
    \/ /\ pc = "idle"
       /\ \E f \in PairFamilies :
             \E w_left \in Operands(f), w_right \in Operands(f),
                strict \in BOOLEAN, ignore_order \in BOOLEAN,
                jit \in BOOLEAN, is_copy \in BOOLEAN :
                compare(w_left, IF is_copy THEN Copy(w_right) ELSE w_right,
                        strict, ignore_order, jit)
    \/ compare_aggregates_pop
    \/ /\ pc = "body"
       /\ \E jit \in BOOLEAN : compare_aggregates_body(jit)
    \/ compare_aggregates_exit
    \/ /\ pc = "idle"
       /\ \E w_left \in ModOperands, w_right \in ModOperands : mod(w_left, w_right)
    \/ /\ pc = "idle"
       /\ \E name \in {"lshift", "rshift"}, W \in WordWidths :
             \E left \in Words(W), right \in ShiftCounts : shift(name, left, right, W)
    \/ /\ pc = "idle"
       /\ \E name \in {"or_", "and_", "xor"}, p \in BitPairs : bitwise_call(name, p[1], p[2])
    \/ /\ pc = "idle"
       /\ \E w_arr \in SliceArrays, start \in SliceInts, shift_n \in SliceInts,
             keep_keys \in BOOLEAN, keep_str_keys \in BOOLEAN :
             slice_call(w_arr, start, shift_n, keep_keys, keep_str_keys)
    \/ /\ pc = "idle"
       /\ \E fname \in CallbackCallers, arg_no \in CallbackArgNos, w_obj \in CallbackValues,
             give_warning \in BOOLEAN, contextclass \in ContextClasses :
            get_callback_call(fname, arg_no, w_obj, give_warning, contextclass)
    \/ /\ pc = "idle"
       /\ \E modules \in ModuleLists, W \in WordWidths :
            setup_constants_call(modules, W)
    \/ /\ pc = "idle"
       /\ \E w_arr \in IterArrays : with_iter_enter(w_arr)
    \/ with_iter_next_item
    \/ with_iter_exit
    \/ with_iter_raise
    \/ iter_next_item_after_scope
    \/ /\ pc = "idle"
       /\ \E w_arr \in SetitemArrays : share_array(w_arr)
    \/ /\ pc = "holding"
       /\ \E w_obj \in 1 .. (MaxSetitems + 1), w_item \in SetitemKeys, w_newvalue \in SetitemValues :
            setitem_call(w_obj, w_item, w_newvalue)
    \/ release_arrays
    \/ /\ pc = "idle"
       /\ \E w_obj \in ForceIntValues : force_int_call(w_obj)
    \/ /\ pc = "idle"
       /\ \E tp \in TypeTags : get_type_name_call(tp)
    \/ /\ pc = "idle"
       /\ \E w_obj \in TypeNameValues : gettypename_call(w_obj)
    \/ return_to_caller

Spec == Init /\ [][Next]_vars

\* The comparator alone, on the arrays built by hand.
NextExtras ==
    \/ /\ pc = "idle"
       /\ \E w_left \in Extras, w_right \in Extras,
             strict \in BOOLEAN, ignore_order \in BOOLEAN,
             jit \in BOOLEAN, is_copy \in BOOLEAN :
             compare(w_left, IF is_copy THEN Copy(w_right) ELSE w_right,
                     strict, ignore_order, jit)
    \/ compare_aggregates_pop
    \/ /\ pc = "body"
       /\ \E jit \in BOOLEAN : compare_aggregates_body(jit)
    \/ compare_aggregates_exit
    \/ return_to_caller

\* A call of _compare_aggregates keeps running: the loop's test, its pops and
\* its body are taken as long as they can be.
FairSpec ==
    /\ Init /\ [][NextExtras]_vars
    /\ WF_vars(compare_aggregates_pop)
    /\ WF_vars(\E jit \in BOOLEAN : compare_aggregates_body(jit))
    /\ WF_vars(compare_aggregates_exit)

(***************************************************************************)
(* Properties of the comparator.                                           *)
(***************************************************************************)
Compared == pc = "done" /\ call.op = "compare"

IsNaN(w) == w.tp = tp_float /\ w.nan

\* C1: reflexivity.  A call compare(v, v), of a value with itself, returns 0
\* under every combination of strict and ignore_order, unless v is a NaN
\* float.  (An aggregate is compared with itself by identity, so what it
\* contains is never looked at.)
C1_Reflexivity ==
    (Compared /\ call.w_left = call.w_right /\ ~IsNaN(deref(call.w_left))) => ret = PyInt(0)

\* compare(v, v) has returned for a non-empty array v, in strict ordering mode
C1_Witness ==
    /\ Compared
    /\ call.w_left = call.w_right
    /\ ~IsReference(call.w_left)
    /\ call.w_left.tp = tp_array
    /\ arraylen(call.w_left) = 2
    /\ call.strict
    /\ ~call.ignore_order
    /\ ret = PyInt(0)

\* is_w(w_a, w_b) and eq(w_left, w_right), for either answer of jit.isconstant
is_w(w_a, w_b, jit) == _compare(w_a, w_b, TRUE, TRUE, jit) = 0
eq(w_left, w_right, jit) == _compare(w_left, w_right, FALSE, TRUE, jit) = 0

\* C2: strict implies loose.  When a call compare(a, b, strict=True,
\* ignore_order=True), the call is_w makes, has returned 0, then eq(a, b) is
\* true: compare(a, b, strict=False, ignore_order=True) returns 0 too,
\* whatever jit.isconstant answers.
C2_StrictImpliesLoose ==
    (Compared /\ call.strict /\ call.ignore_order /\ ret = PyInt(0))
        => \A jit \in BOOLEAN : eq(call.w_left, call.w_right, jit)

\* is_w has answered true for two distinct arrays holding a nested array
\* and a string: the nested pair went over the work stack with its flag
C2_Witness ==
    /\ Compared /\ call.strict /\ call.ignore_order /\ ret = PyInt(0)
    /\ call.w_left # call.w_right
    /\ ~IsReference(call.w_left)
    /\ call.w_left.tp = tp_array
    /\ arraylen(call.w_left) = 2
    /\ call.w_left.items[1].val.tp = tp_array
    /\ call.w_left.items[2].val.tp = tp_str

\* a call compare(CycA, CycB): two distinct arrays, each holding a reference
\* to a cell that holds the array itself
CyclicCall == call.op = "compare" /\ call.w_left = CycA /\ call.w_right = CycB

\* the call of compare has returned r
ComparedAs(r) == Compared /\ ret = PyInt(r)

\* C3: cycle safety.  A call compare(CycA, CycB) terminates and returns 0,
\* and while it runs the object stack never holds more than the one pair.
C3_CycleSafety ==
    /\ CyclicCall ~> ComparedAs(0)
    /\ [](CyclicCall => Len(obj_st) <= 2)

\* the loop has popped the pair (CycA, CycB) and is about to compare it
C3_Witness ==
    /\ CyclicCall
    /\ pc = "body"
    /\ popped.w_left = CycA
    /\ popped.w_right = CycB
    /\ obj_st = <<>>

(***************************************************************************)
(* The verdict of the earliest differing position, computed by recursion   *)
(* over the arrays: position i of the left array, in insertion order, has  *)
(* verdict 1 when its key is missing on the right, and otherwise the       *)
(* result of comparing the paired values: by this recursion for two        *)
(* arrays, by _compare for every other pair.                               *)
(***************************************************************************)
RECURSIVE earliest_from(_, _, _, _, _)
RECURSIVE earliest_difference(_, _, _, _)

pair_verdict(w_left_val, w_right_val, strict, jit) ==
    IF w_left_val = w_right_val THEN 0
    ELSE IF w_left_val.tp = tp_array /\ w_right_val.tp = tp_array
    THEN earliest_difference(w_left_val, w_right_val, strict, jit)
    ELSE _compare(w_left_val, w_right_val, strict, FALSE, jit)

position_verdict(w_left, w_right, i, strict, jit) ==
    IF ~isset_index(w_right, w_left.items[i].key) THEN 1
    ELSE pair_verdict(deref(w_left.items[i].val),
                      deref(getitem(w_right, w_left.items[i].key)), strict, jit)

earliest_from(w_left, w_right, i, strict, jit) ==
    IF i > arraylen(w_left) THEN 0
    ELSE IF position_verdict(w_left, w_right, i, strict, jit) # 0
    THEN position_verdict(w_left, w_right, i, strict, jit)
    ELSE earliest_from(w_left, w_right, i + 1, strict, jit)

earliest_difference(w_left, w_right, strict, jit) ==
    IF w_left = w_right THEN 0
    ELSE IF arraylen(w_left) < arraylen(w_right) THEN -1
    ELSE IF arraylen(w_left) > arraylen(w_right) THEN 1
    ELSE earliest_from(w_left, w_right, 1, strict, jit)

\* a finished call in ordering mode on two arrays of equal length
OrderedArrays ==
    /\ Compared
    /\ ~call.ignore_order
    /\ deref(call.w_left).tp = tp_array
    /\ deref(call.w_right).tp = tp_array
    /\ arraylen(deref(call.w_left)) = arraylen(deref(call.w_right))

\* C4: earliest difference decides.  In ordering mode a call on two arrays
\* of equal length returns the verdict of the earliest position of the left
\* array at which the paired values compare non-zero or the key is missing
\* on the right (1 then), at any nesting depth, and 0 if there is none.
C4_EarliestDifference ==
    OrderedArrays =>
        \A jit \in BOOLEAN :
            ret = PyInt(earliest_from(deref(call.w_left), deref(call.w_right), 1,
                                      call.strict, jit))

\* [[1], 2] against [[2], 1]: the scan meets the leaf pair (2, 1) while the
\* nested pair ([1], [2]) is deferred, and the nested pair decides: -1
C4_Witness ==
    /\ OrderedArrays
    /\ arraylen(call.w_left) = 2
    /\ call.w_left.items[1].val = ListOf(<<W_IntObject(1)>>)
    /\ call.w_right.items[1].val = ListOf(<<W_IntObject(2)>>)
    /\ call.w_left.items[2].val = W_IntObject(2)
    /\ call.w_right.items[2].val = W_IntObject(1)
    /\ ret = PyInt(-1)

\* the kinds of value an instance is said to outrank: anything but an
\* instance, null and a boolean
Outranked == {tp_int, tp_float, tp_str, tp_array, tp_file_res}

\* C5: Object outranks any non-object.  In loose mode, for an instance o and
\* a value x that is neither an instance, null nor a boolean (an array in
\* particular), compare(o, x) returns 1 and compare(x, o) returns -1.
C5_ObjectOutranks ==
    (Compared /\ ~call.strict) =>
        /\ (deref(call.w_left).tp = tp_object /\ deref(call.w_right).tp \in Outranked)
               => ret = PyInt(1)
        /\ (deref(call.w_right).tp = tp_object /\ deref(call.w_left).tp \in Outranked)
               => ret = PyInt(-1)

\* a loose compare(o, x) of an instance with an array has returned -1
C5_Witness ==
    /\ Compared /\ ~call.strict
    /\ deref(call.w_left).tp = tp_object
    /\ deref(call.w_right).tp = tp_array
    /\ ret = PyInt(-1)

\* a finished call on two strings
ComparedStrings ==
    /\ Compared
    /\ deref(call.w_left).tp = tp_str
    /\ deref(call.w_right).tp = tp_str

\* the order of two numbers by their values
numeric_order(w_a, w_b, ignore_order) ==
    my_cmp(FloatEq(float_w(w_a), float_w(w_b)), FloatLt(float_w(w_a), float_w(w_b)),
           ignore_order)

\* C6: numeric-string promotion.  A loose compare of two strings that both
\* parse as numbers with the whole input consumed returns what comparing
\* their numeric values returns; a strict compare of two strings returns
\* their bytewise lexicographic order.
C6_NumericStrings ==
    ComparedStrings =>
        IF call.strict
        THEN ret = PyInt(my_cmp_str(deref(call.w_left).strval, deref(call.w_right).strval,
                                    call.ignore_order))
        ELSE (/\ convert_string_to_number(deref(call.w_left).strval).valid
              /\ convert_string_to_number(deref(call.w_right).strval).valid)
             => ret = PyInt(numeric_order(
                              convert_string_to_number(deref(call.w_left).strval).w,
                              convert_string_to_number(deref(call.w_right).strval).w,
                              call.ignore_order))

\* the loose compare("10", "9") has returned 1
C6_Witness ==
    /\ ComparedStrings
    /\ ~call.strict
    /\ ~call.ignore_order
    /\ call.w_left = W_ConstStringObject(<<49, 48>>)
    /\ call.w_right = W_ConstStringObject(<<57>>)
    /\ ret = PyInt(1)

(***************************************************************************)
(* Properties of the modulo.                                               *)
(***************************************************************************)
ModDone == pc = "done" /\ call.op = "mod"

Abs(n) == IF n < 0 THEN 0 - n ELSE n

\* trunc(l / r): the quotient rounded toward zero
trunc_div(l, r) ==
    IF (l < 0) = (r < 0) THEN Abs(l) \div Abs(r) ELSE 0 - (Abs(l) \div Abs(r))

\* C7: modulo truncates toward zero.  For integers l and r with r # 0,
\* mod(l, r) returns Int(l - trunc(l / r) * r): zero or a number with the
\* sign of l, of magnitude below |r|; mod(l, -1) is 0.
C7_ModTruncates ==
    (ModDone /\ force_int(call.w_right) # 0) =>
        LET l == force_int(call.w_left)
            r == force_int(call.w_right)
        IN  /\ ret = W_IntObject(l - trunc_div(l, r) * r)
            /\ ret.intval = 0 \/ (ret.intval < 0) = (l < 0)
            /\ Abs(ret.intval) < Abs(r)
            /\ r = -1 => ret.intval = 0

\* mod(-7, 3) has returned -1
C7_Witness ==
    /\ ModDone
    /\ call.w_left = W_IntObject(-7)
    /\ call.w_right = W_IntObject(3)
    /\ ret = W_IntObject(-1)

\* C8: division by zero in modulo.  mod(l, 0) warns "Division by zero"
\* exactly once and returns the boolean false; with a right operand other
\* than zero nothing is warned and the result is an integer.
C8_ModByZero ==
    ModDone =>
        IF force_int(call.w_right) = 0
        THEN warnings = <<"Division by zero">> /\ ret = w_False
        ELSE warnings = <<>> /\ ret.tp = tp_int

\* mod(-7, 0) has warned once and returned false
C8_Witness ==
    /\ ModDone
    /\ call.w_left = W_IntObject(-7)
    /\ call.w_right = W_IntObject(0)
    /\ warnings = <<"Division by zero">>
    /\ ret = w_False

(***************************************************************************)
(* Properties of the shifts.                                               *)
(***************************************************************************)
ShiftDone == pc = "done" /\ call.op \in {"lshift", "rshift"}

\* the word left shifted by k places, 0 <= k < W, and cut to W bits
shifted(name, left, k, W) ==
    IF name = "lshift"
    THEN [i \in 1 .. W |-> IF i <= k THEN 0 ELSE left[i - k]]
    ELSE [i \in 1 .. W |-> IF i + k <= W THEN left[i + k] ELSE left[W]]

\* C9: shift masking.  For every word x and every shift count n, negative
\* counts and counts of W and more included, lshift(x, n) is lshift(x, n mod W)
\* and rshift(x, n) is rshift(x, n mod W), W being the width of the machine
\* word, and the result is a W-bit signed integer.
C9_ShiftMasking ==
    ShiftDone =>
        /\ Len(ret.intbits) = call.W
        /\ ret.intbits = shifted(call.op, call.left, call.right % call.W, call.W)
        /\ call.op = "lshift" => ret = lshift(call.left, call.right % call.W, call.W)
        /\ call.op = "rshift" => ret = rshift(call.left, call.right % call.W, call.W)

\* lshift(1, -63) on a 32-bit build has returned 2: the count is taken as 1
C9_Witness ==
    /\ ShiftDone
    /\ call.op = "lshift"
    /\ call.W = 32
    /\ call.left = ToBits(1, 32)
    /\ call.right = -63
    /\ ret = W_IntWord(ToBits(2, 32))

(***************************************************************************)
(* Properties of the bitwise operators on strings.                         *)
(***************************************************************************)
BitwiseDone ==
    /\ pc = "done"
    /\ call.op \in {"or_", "and_", "xor"}
    /\ call.w_left.tp = tp_str
    /\ call.w_right.tp = tp_str

RECURSIVE FromBits(_)
FromBits(bits) == IF bits = <<>> THEN 0 ELSE bits[1] + 2 * FromBits(Tail(bits))

\* the byte whose bits are the operation on the bits of the bytes x and y
byte_op(name, x, y) ==
    FromBits([i \in 1 .. 8 |-> BitOf(name, ToBits(x, 8)[i], ToBits(y, 8)[i])])

\* C10: string bitwise length rule.  or_(s, t) has length max(|s|, |t|), its
\* byte i is s[i] OR t[i] where both strings have one and the byte of the
\* longer string beyond, whatever the order of the operands; and_(s, t) and
\* xor(s, t) have length min(|s|, |t|), byte i being the operation on s[i]
\* and t[i].
C10_StringBitwise ==
    BitwiseDone =>
        LET s == call.w_left.strval
            t == call.w_right.strval
            out == ret.strval
        IN  /\ ret.tp = tp_str
            /\ IF call.op = "or_"
               THEN /\ Len(out) = Max(Len(s), Len(t))
                    /\ \A i \in 1 .. Len(out) :
                          out[i] = IF i <= Min(Len(s), Len(t))
                                   THEN byte_op("or_", s[i], t[i])
                                   ELSE IF Len(s) > Len(t) THEN s[i] ELSE t[i]
                    /\ ret = bitwise("or_", call.w_right, call.w_left)
               ELSE /\ Len(out) = Min(Len(s), Len(t))
                    /\ \A i \in 1 .. Len(out) : out[i] = byte_op(call.op, s[i], t[i])

\* or_("A", "abcd") has returned "abcd": the tail of the longer, right
\* operand is kept
C10_Witness ==
    /\ BitwiseDone
    /\ call.op = "or_"
    /\ call.w_left.strval = <<65>>
    /\ call.w_right.strval = <<97, 98, 99, 100>>
    /\ ret = W_ConstStringObject(<<97, 98, 99, 100>>)

(***************************************************************************)
(* Properties of slice.                                                    *)
(***************************************************************************)
SliceDone == pc = "done" /\ call.op = "slice"

\* s when s >= 0 and len(a) + s when s < 0
normalized_start(a, s) == IF s >= 0 THEN s ELSE arraylen(a) + s

\* C11 as stated: slice bounds.  For every array a, start s and length n,
\* positive, zero or negative, len(slice(a, s, n, keep_keys=true)) is at
\* most min(n, len(a) - normalized_start).
C11_SliceBounds ==
    (SliceDone /\ call.keep_keys) =>
        arraylen(ret) <= Min(call.shift,
                             arraylen(call.w_arr) - normalized_start(call.w_arr, call.start))

\* the length asked for: n when n >= 0, and for a negative n what is left
\* of the array between normalized_start and |n| items before its end
effective_length(a, s, n) ==
    IF n >= 0 THEN n ELSE arraylen(a) + n - normalized_start(a, s)

\* C11 amended: slice bounds.  len(slice(a, s, n, keep_keys=true)) is at
\* most max(0, min(effective length, len(a) - normalized_start)): the bound
\* is never below 0, and a negative n counts from the end of the array.
C11_SliceBoundsAmended ==
    (SliceDone /\ call.keep_keys) =>
        arraylen(ret) <= Max(0, Min(effective_length(call.w_arr, call.start, call.shift),
                                    arraylen(call.w_arr)
                                        - normalized_start(call.w_arr, call.start)))

\* slice([10, 20, 30, 40], 1, -1, keep_keys=true) has returned the two
\* items from position 1 up to one before the end
C11_Witness ==
    /\ SliceDone /\ call.keep_keys
    /\ arraylen(call.w_arr) = 4
    /\ call.start = 1
    /\ call.shift = -1
    /\ ret.items = SubSeq(call.w_arr.items, 2, 3)

\* the first and the last 0-based position of the window inside the array
window_first(a, s, n) == Max(normalized_start(a, s), 0)
window_last(a, s, n) ==
    Min(normalized_start(a, s) + effective_length(a, s, n) - 1, arraylen(a) - 1)

\* the items of the window, as they stand in the array
window_items(a, s, n) ==
    IF window_last(a, s, n) < window_first(a, s, n) THEN <<>>
    ELSE SubSeq(a.items, window_first(a, s, n) + 1, window_last(a, s, n) + 1)

\* whether an item gets a new key: always, or unless its key is a string
renumbered(item, keep_str_keys) == ~(keep_str_keys /\ item.key.tp = tp_str)

\* the items under new keys: the renumbered ones count 0, 1, 2, ...
renumber(items, keep_str_keys) ==
    [j \in 1 .. Len(items) |->
        IF renumbered(items[j], keep_str_keys)
        THEN Item(W_IntObject(Cardinality({k \in 1 .. j - 1 :
                                             renumbered(items[k], keep_str_keys)})),
                  items[j].val)
        ELSE items[j]]

\* C12: slice without key preservation renumbers.  With keep_keys=false,
\* slice(a, s, n) returns the values at the insertion positions
\* normalized_start .. normalized_start + n - 1 of a (n being the effective
\* length when negative), in insertion order, under the integer keys 0, 1,
\* 2, ...; with keep_str_keys=true string keys are kept and only the items
\* under integer keys are renumbered from 0.
C12_SliceRenumbers ==
    (SliceDone /\ ~call.keep_keys) =>
        ret.items = renumber(window_items(call.w_arr, call.start, call.shift),
                             call.keep_str_keys)

\* slice([10, 20, 30, 40], -2, 1, keep_keys=false) has returned [0 => 30]
C12_Witness ==
    /\ SliceDone /\ ~call.keep_keys /\ ~call.keep_str_keys
    /\ call.w_arr = W_ArrayObject(1, [i \in 1 .. 4 |-> Item(IntKey(i - 1), W_IntObject(10 * i))])
    /\ call.start = -2
    /\ call.shift = 1
    /\ ret.items = <<Item(IntKey(0), W_IntObject(30))>>

(***************************************************************************)
(* C13: get_callback never lets InvalidCallback (nor the VisibilityError   *)
(* of a method lookup) out; when resolution fails it returns None, with    *)
(* exactly the one warning "<fname>() expects parameter <arg_no> to be a   *)
(* valid callback, <msg>" if give_warning and with none otherwise; when    *)
(* resolution succeeds there is no warning.                                *)
(***************************************************************************)
CallbackDone == pc = "done" /\ call.op = "get_callback"

resolution(c) == _get_callback(c.w_obj, c.contextclass)
resolution_fails(c) == resolution(c).raised

C13_CallbackRecovery ==
    CallbackDone =>
        /\ ~ret.raised
        /\ IF resolution_fails(call)
           THEN /\ IsNone(ret.value)
                /\ warnings = IF call.give_warning
                              THEN <<call.fname \o "() expects parameter "
                                       \o ToString(call.arg_no)
                                       \o " to be a valid callback, "
                                       \o resolution(call).msg>>
                              ELSE <<>>
           ELSE /\ ~IsNone(ret.value)
                /\ warnings = <<>>

\* a private method asked for from outside its class, with the warning on
C13_Witness ==
    /\ CallbackDone
    /\ call.w_obj.tp = tp_array
    /\ arraylen(call.w_obj) = 2
    /\ deref(getitem(call.w_obj, W_IntObject(0))).tp = tp_object
    /\ call.give_warning
    /\ IsNone(ret.value)
    /\ Len(warnings) = 1

(***************************************************************************)
(* C14: after setup_constants the table holds, for each of true, false and *)
(* null, exactly every upper/lower case spelling of the name (2^n keys for *)
(* n letters), all with the literal's value whatever a module gave under   *)
(* the same spelling; every other key is one a module contributed or one   *)
(* of PHP_INT_MAX / PHP_INT_SIZE, so no other constant gained spellings.   *)
(***************************************************************************)
ConstantsDone == pc = "done" /\ call.op = "setup_constants"

lowered(k) == [i \in 1 .. Len(k) |-> lower(k[i])]
table_keys(dct) == {dct[i].key : i \in 1 .. Len(dct)}
\* one spelling for every choice of the positions written in upper case
spellings(name) ==
    {[i \in 1 .. Len(name) |-> IF i \in up THEN upper(name[i]) ELSE lower(name[i])] :
        up \in SUBSET (1 .. Len(name))}
Literals == {<<NAME_true, w_True>>, <<NAME_false, w_False>>, <<NAME_null, w_Null>>}
contributed(modules) ==
    UNION {{modules[i][j].key : j \in 1 .. Len(modules[i])} : i \in 1 .. Len(modules)}

C14_LiteralConstants ==
    ConstantsDone =>
        /\ \A l \in Literals :
            /\ {k \in table_keys(ret.dct) : lowered(k) = l[1]} = spellings(l[1])
            /\ Cardinality(spellings(l[1])) = 2 ^ Len(l[1])
            /\ \A k \in spellings(l[1]) : dict_get(ret.dct, k) = l[2]
        /\ {k \in table_keys(ret.dct) : \A l \in Literals : lowered(k) # l[1]}
             = {k \in contributed(call.modules) : \A l \in Literals : lowered(k) # l[1]}
               \cup {NAME_PHP_INT_MAX, NAME_PHP_INT_SIZE}
        /\ Len(ret.dct) = Cardinality(table_keys(ret.dct))

\* a module contributed TRUE with another value, and the literal's value won
C14_Witness ==
    /\ ConstantsDone
    /\ <<84, 82, 85, 69>> \in contributed(call.modules)
    /\ dict_get(ret.dct, <<84, 82, 85, 69>>) = w_True
    /\ Len(ret.dct) >= 16 + 32 + 16 + 2

(***************************************************************************)
(* C15: the iterator of "with space.iter(arr) as itr" is invalidated when  *)
(* the scope is left, whether the body ended or raised; once the scope is  *)
(* left the iterator cannot be used.                                       *)
(***************************************************************************)
ScopeLeft == pc = "done" /\ call.op = "iter"

C15_ScopedRelease == ScopeLeft => (~heap[1].valid /\ ~iter_usable(heap[1]))

\* the body raised before the last item, and the iterator still gives items
C15_Witness ==
    /\ ScopeLeft
    /\ ret.raised
    /\ heap[1].valid
    /\ iter_usable(heap[1])

(***************************************************************************)
(* C16: a setitem call writes to a copy: every array that existed before   *)
(* the call, the original among them, keeps its keys, values and length    *)
(* for its holders, and the array returned is a new one that has the       *)
(* items of the array given with the value written under the key.          *)
(***************************************************************************)
SetitemStep == pc = "holding" /\ pc' = "holding" /\ call'.ncalls = call.ncalls + 1

\* the array res is the array given with w_newvalue under w_item
reflects_write(res, given, w_item, w_newvalue) ==
    /\ getitem(res, w_item) = w_newvalue
    /\ \A i \in 1 .. Len(given.items) :
         given.items[i].key # w_item => res.items[i] = given.items[i]
    /\ arraylen(res) = IF isset_index(given, w_item) THEN arraylen(given)
                       ELSE arraylen(given) + 1
    /\ \A i \in 1 .. Len(res.items) : \A j \in 1 .. Len(res.items) :
         res.items[i].key = res.items[j].key => i = j

C16_CopyOnWrite ==
    [][SetitemStep =>
        /\ \A a \in 1 .. Len(heap) : heap'[a] = heap[a]
        /\ heap'[1].items = call.original.items
        /\ ret' \notin 1 .. Len(heap)
        /\ reflects_write(heap'[ret'], heap[call'.w_obj], call'.w_item, call'.w_newvalue)]_vars

\* two writes, the second to an existing key of the original, which still has its items
C16_Witness ==
    /\ pc = "holding"
    /\ call.op = "setitem"
    /\ call.ncalls = 2
    /\ call.w_obj = 1
    /\ isset_index(heap[1], call.w_item)
    /\ heap[1] = call.original
    /\ getitem(heap[ret], call.w_item) # getitem(heap[1], call.w_item)

(***************************************************************************)
(* C17: force_int of a string returns an integer for every string: the     *)
(* value of the leading optional sign and the decimal digits after it, and *)
(* 0 when there are no such digits ("12abc" gives 12, "abc" gives 0, and   *)
(* "-", "1-2", "+-3" give an integer and not an error).                    *)
(***************************************************************************)
ForceIntOfString == pc = "done" /\ call.op = "force_int" /\ call.w_obj.tp = tp_str

\* the value of the optional sign at position i and the digits after it
signed_prefix(s, i) ==
    IF At(s, i, ChMinus) THEN 0 - DigitsVal(s, i + 1, ScanDigits(s, i + 1))
    ELSE IF At(s, i, ChPlus) THEN DigitsVal(s, i + 1, ScanDigits(s, i + 1))
    ELSE DigitsVal(s, i, ScanDigits(s, i))

C17_ForceIntPrefix ==
    ForceIntOfString =>
        /\ ~ret.raised
        /\ ret.value = signed_prefix(call.w_obj.strval, SkipWhitespace(call.w_obj.strval, 1))

\* "1-2": the digits and the sign are all collected and int() refuses the text
C17_Witness ==
    /\ ForceIntOfString
    /\ call.w_obj.strval = <<49, 45, 50>>
    /\ ret.raised
    /\ ret.exc = "ValueError"

(***************************************************************************)
(* C18: get_type_name(tag) is, for the tags 0 .. 15 in order, integer,     *)
(* double, string, array, NULL (in upper case), boolean, object, resource  *)
(* five times, constant, delayed constant, resource, resource; gettypename *)
(* of a value is the same text for the tag of the dereferenced value, and  *)
(* "instance of <class-name>" for an object.                               *)
(***************************************************************************)
TypeNameDone == pc = "done" /\ call.op = "get_type_name"
TypeNameOfDone == pc = "done" /\ call.op = "gettypename"

\* the names as the claim lists them
names_as_listed ==
    <<<<105, 110, 116, 101, 103, 101, 114>>, <<100, 111, 117, 98, 108, 101>>,
      <<115, 116, 114, 105, 110, 103>>, <<97, 114, 114, 97, 121>>,
      <<78, 85, 76, 76>>, <<98, 111, 111, 108, 101, 97, 110>>,
      <<111, 98, 106, 101, 99, 116>>, <<114, 101, 115, 111, 117, 114, 99, 101>>,
      <<114, 101, 115, 111, 117, 114, 99, 101>>, <<114, 101, 115, 111, 117, 114, 99, 101>>,
      <<114, 101, 115, 111, 117, 114, 99, 101>>, <<114, 101, 115, 111, 117, 114, 99, 101>>,
      <<99, 111, 110, 115, 116, 97, 110, 116>>, <<100, 101, 108, 97, 121, 101, 100, 32, 99, 111, 110, 115, 116, 97, 110, 116>>,
      <<114, 101, 115, 111, 117, 114, 99, 101>>, <<114, 101, 115, 111, 117, 114, 99, 101>>>>

\* the same names with the text of the Null tag in lower case
names_in_lower_case ==
    <<<<105, 110, 116, 101, 103, 101, 114>>, <<100, 111, 117, 98, 108, 101>>,
      <<115, 116, 114, 105, 110, 103>>, <<97, 114, 114, 97, 121>>,
      <<110, 117, 108, 108>>, <<98, 111, 111, 108, 101, 97, 110>>,
      <<111, 98, 106, 101, 99, 116>>, <<114, 101, 115, 111, 117, 114, 99, 101>>,
      <<114, 101, 115, 111, 117, 114, 99, 101>>, <<114, 101, 115, 111, 117, 114, 99, 101>>,
      <<114, 101, 115, 111, 117, 114, 99, 101>>, <<114, 101, 115, 111, 117, 114, 99, 101>>,
      <<99, 111, 110, 115, 116, 97, 110, 116>>, <<100, 101, 108, 97, 121, 101, 100, 32, 99, 111, 110, 115, 116, 97, 110, 116>>,
      <<114, 101, 115, 111, 117, 114, 99, 101>>, <<114, 101, 115, 111, 117, 114, 99, 101>>>>

type_names_are(names) ==
    /\ TypeNameDone => ret = names[call.tp + 1]
    /\ TypeNameOfDone =>
         ret = IF deref(call.w_obj).tp = tp_object
               THEN <<105, 110, 115, 116, 97, 110, 99, 101, 32, 111, 102, 32>> \o class_name(deref(call.w_obj))
               ELSE names[deref(call.w_obj).tp + 1]

C18_TypeNames == type_names_are(names_as_listed)

\* amended: the Null tag gives "null"
C18_TypeNamesLowerCase == type_names_are(names_in_lower_case)

\* get_type_name of the Null tag has returned "null"
C18_Witness ==
    /\ TypeNameDone
    /\ call.tp = tp_null
    /\ ret = <<110, 117, 108, 108>>

(***************************************************************************)
(* C19: for two arrays of equal length in which a key of the left array is *)
(* missing on the right and every pair before that key, in the insertion   *)
(* order of the left array, compares equal, compare returns 1 in ordering  *)
(* mode and -1 in ignore_order mode.                                       *)
(***************************************************************************)
missing_positions(w_left, w_right) ==
    {i \in 1 .. arraylen(w_left) : ~isset_index(w_right, w_left.items[i].key)}

first_missing(w_left, w_right) ==
    CHOOSE i \in missing_positions(w_left, w_right) :
        \A j \in missing_positions(w_left, w_right) : i <= j

equal_before(w_left, w_right, last, strict, ignore_order, jit) ==
    \A i \in 1 .. last - 1 :
        _compare(deref(w_left.items[i].val), deref(getitem(w_right, w_left.items[i].key)),
                 strict, ignore_order, jit) = 0

\* a finished call on two arrays of equal length, the left with a key of its own
MissingKeyCall ==
    /\ Compared
    /\ deref(call.w_left).tp = tp_array
    /\ deref(call.w_right).tp = tp_array
    /\ arraylen(deref(call.w_left)) = arraylen(deref(call.w_right))
    /\ missing_positions(deref(call.w_left), deref(call.w_right)) # {}

C19_MissingKey ==
    MissingKeyCall =>
        \A jit \in BOOLEAN :
            equal_before(deref(call.w_left), deref(call.w_right),
                         first_missing(deref(call.w_left), deref(call.w_right)),
                         call.strict, call.ignore_order, jit) =>
                ret = PyInt(IF call.ignore_order THEN 0 - 1 ELSE 1)

\* in ordering mode, with an equal pair of nested arrays in front of the missing key
C19_Witness ==
    /\ MissingKeyCall
    /\ ~call.ignore_order
    /\ first_missing(deref(call.w_left), deref(call.w_right)) = 2
    /\ IsAggregate(deref(call.w_left).items[1].val)
    /\ IsAggregate(getitem(deref(call.w_right), deref(call.w_left).items[1].key))
    /\ deref(call.w_left).items[1].val # getitem(deref(call.w_right), deref(call.w_left).items[1].key)
    /\ equal_before(deref(call.w_left), deref(call.w_right), 2, call.strict, FALSE, TRUE)
    /\ ret = PyInt(1)

(***************************************************************************)
(* C20: in ordering mode, when a leaf pair of two arrays of equal length   *)
(* compares non-zero while aggregate pairs met before it are deferred, the *)
(* pair (None, None) is pushed under the deferred pairs; if the deferred   *)
(* pairs all compare equal, the sentinel is popped and compare returns 1.  *)
(***************************************************************************)
left_val(w_left, i) == deref(w_left.items[i].val)
right_val(w_left, w_right, i) == deref(getitem(w_right, w_left.items[i].key))

\* position i pairs two aggregates that are not one object: the pair is deferred
is_deferred(w_left, w_right, i) ==
    /\ isset_index(w_right, w_left.items[i].key)
    /\ left_val(w_left, i) # right_val(w_left, w_right, i)
    /\ IsAggregate(left_val(w_left, i))
    /\ IsAggregate(right_val(w_left, w_right, i))

\* position i ends the scan: its key is missing, or its leaf pair compares non-zero
ends_scan(w_left, w_right, i, strict, jit) ==
    \/ ~isset_index(w_right, w_left.items[i].key)
    \/ /\ left_val(w_left, i) # right_val(w_left, w_right, i)
       /\ ~is_deferred(w_left, w_right, i)
       /\ _compare(left_val(w_left, i), right_val(w_left, w_right, i), strict, FALSE, jit) # 0

scan_end(w_left, w_right, strict, jit) ==
    CHOOSE i \in 1 .. arraylen(w_left) :
        /\ ends_scan(w_left, w_right, i, strict, jit)
        /\ \A j \in 1 .. i - 1 : ~ends_scan(w_left, w_right, j, strict, jit)

\* the scan of the two arrays ends at a leaf pair, with pairs deferred before it
leaf_after_deferred(w_left, w_right, strict, jit) ==
    /\ w_left.tp = tp_array
    /\ w_right.tp = tp_array
    /\ w_left # w_right
    /\ arraylen(w_left) = arraylen(w_right)
    /\ \E i \in 1 .. arraylen(w_left) : ends_scan(w_left, w_right, i, strict, jit)
    /\ isset_index(w_right, w_left.items[scan_end(w_left, w_right, strict, jit)].key)
    /\ \E j \in 1 .. scan_end(w_left, w_right, strict, jit) - 1 : is_deferred(w_left, w_right, j)

deferred_equal(w_left, w_right, strict, jit) ==
    \A j \in 1 .. scan_end(w_left, w_right, strict, jit) - 1 :
        is_deferred(w_left, w_right, j) =>
            _compare(left_val(w_left, j), right_val(w_left, w_right, j), strict, FALSE, jit) = 0

\* a call in ordering mode whose first scan has ended at a leaf pair behind deferred pairs
LeafDeferred(jit) ==
    /\ call.op = "compare"
    /\ ~call.ignore_order
    /\ leaf_after_deferred(deref(call.w_left), deref(call.w_right), call.strict, jit)
    /\ obj_st # <<deref(call.w_left), deref(call.w_right)>>

\* the pair at the bottom of the stack while deferred work is on it
bottom_pair == <<obj_st[1], obj_st[2]>>

the_leaf_pair(jit) ==
    <<left_val(deref(call.w_left),
               scan_end(deref(call.w_left), deref(call.w_right), call.strict, jit)),
      right_val(deref(call.w_left), deref(call.w_right),
                scan_end(deref(call.w_left), deref(call.w_right), call.strict, jit))>>

C20_DeferredSentinel ==
    \A jit \in BOOLEAN :
        LeafDeferred(jit) =>
            /\ (pc \in {"loop", "body"} /\ Len(obj_st) >= 2) =>
                    bottom_pair = <<NoneEntry, NoneEntry>>
            /\ (pc = "done"
                /\ deferred_equal(deref(call.w_left), deref(call.w_right), call.strict, jit)) =>
                    ret = PyInt(1)

\* amended: the leaf pair itself is deferred, and its own verdict is returned
C20_DeferredLeafPair ==
    \A jit \in BOOLEAN :
        LeafDeferred(jit) =>
            /\ (pc \in {"loop", "body"} /\ Len(obj_st) >= 2) =>
                    bottom_pair = the_leaf_pair(jit)
            /\ (pc = "done"
                /\ deferred_equal(deref(call.w_left), deref(call.w_right), call.strict, jit)) =>
                    ret = PyInt(_compare(the_leaf_pair(jit)[1], the_leaf_pair(jit)[2],
                                         call.strict, FALSE, jit))

\* the deferred pairs were equal and the call returned the leaf pair's verdict, -1
C20_Witness ==
    /\ pc = "done"
    /\ LeafDeferred(TRUE)
    /\ deferred_equal(deref(call.w_left), deref(call.w_right), call.strict, TRUE)
    /\ ret = PyInt(0 - 1)

(***************************************************************************)
(* C21: for two distinct instances of one class with as many attributes,   *)
(* compared loosely, in which a name of the left instance is missing on    *)
(* the right and every pair before that name compares equal, compare       *)
(* returns -1 in both modes, also when aggregate attributes before the     *)
(* name are deferred; an attribute found on the right out of order is      *)
(* compared with the value looked up by its name (so two instances with    *)
(* the same names and values in another order compare equal).              *)
(***************************************************************************)
missing_names(left, right) == {i \in 1 .. Len(left) : ~HasAttr(right, left[i].key)}

first_missing_name(left, right) ==
    CHOOSE i \in missing_names(left, right) : \A j \in missing_names(left, right) : i <= j

attrs_equal_before(left, right, last, ignore_order, jit) ==
    \A i \in 1 .. last - 1 :
        _compare(deref(left[i].val), deref(AttrOf(right, left[i].key)),
                 FALSE, ignore_order, jit) = 0

\* a finished loose call on two distinct instances of one class with as many attributes
InstancesCompared ==
    /\ Compared
    /\ ~call.strict
    /\ deref(call.w_left).tp = tp_object
    /\ deref(call.w_right).tp = tp_object
    /\ deref(call.w_left) # deref(call.w_right)
    /\ deref(call.w_left).klass = deref(call.w_right).klass
    /\ Len(deref(call.w_left).attrs) = Len(deref(call.w_right).attrs)

C21_MissingAttribute ==
    InstancesCompared =>
        \A jit \in BOOLEAN :
            IF missing_names(deref(call.w_left).attrs, deref(call.w_right).attrs) # {}
            THEN attrs_equal_before(deref(call.w_left).attrs, deref(call.w_right).attrs,
                                    first_missing_name(deref(call.w_left).attrs,
                                                       deref(call.w_right).attrs),
                                    call.ignore_order, jit)
                    => ret = PyInt(0 - 1)
            ELSE attrs_equal_before(deref(call.w_left).attrs, deref(call.w_right).attrs,
                                    Len(deref(call.w_left).attrs) + 1, call.ignore_order, jit)
                    => ret = PyInt(0)

\* ordering mode, an equal pair of arrays under the first name, the second name
\* missing on the right: the call has not returned -1
C21_Witness ==
    /\ InstancesCompared
    /\ ~call.ignore_order
    /\ missing_names(deref(call.w_left).attrs, deref(call.w_right).attrs) # {}
    /\ first_missing_name(deref(call.w_left).attrs, deref(call.w_right).attrs) = 2
    /\ IsAggregate(deref(call.w_left).attrs[1].val)
    /\ deref(call.w_left).attrs[1].val # deref(call.w_right).attrs[1].val
    /\ attrs_equal_before(deref(call.w_left).attrs, deref(call.w_right).attrs, 2, FALSE, TRUE)
    /\ ret = PyInt(0)

(***************************************************************************)
(* C22: ignore_order changes the sign of the result at most, never whether *)
(* it is zero: for all values and each strict flag, the call with          *)
(* ignore_order returns 0 exactly when the call without it returns 0; so   *)
(* eq(a, b) holds exactly when le(a, b) and ge(a, b) both hold, for        *)
(* scalars, arrays and instances, instances with different attribute names *)
(* included.                                                               *)
(***************************************************************************)
\* the result of the same call made in the other mode
other_mode(jit) ==
    _compare(call.w_left, call.w_right, call.strict, ~call.ignore_order, jit)

C22_SameZeroness ==
    Compared => \A jit \in BOOLEAN : (ret = PyInt(0)) <=> (other_mode(jit) = 0)

\* two instances whose second attribute names differ: le and ge hold, the call
\* in ordering mode having returned 0, and eq does not
C22_Witness ==
    /\ InstancesCompared
    /\ ~call.ignore_order
    /\ missing_names(deref(call.w_left).attrs, deref(call.w_right).attrs) # {}
    /\ ret = PyInt(0)
    /\ ~eq(call.w_left, call.w_right, TRUE)

(***************************************************************************)
(* C23: whenever the main loop of the aggregate comparator tests its       *)
(* stack, the stack holds whole pairs, two entries for every strict flag;  *)
(* a None entry stands only in a pair (None, None), so the assertion on    *)
(* the popped pair holds; and every other entry is a dereferenced value,   *)
(* never a reference cell.                                                 *)
(***************************************************************************)
AtLoopTest == pc = "loop" /\ call.op = "compare"

whole_pairs == Len(obj_st) = 2 * Len(strict_st)

none_in_pairs ==
    \A k \in 1 .. Len(strict_st) : IsNone(obj_st[2 * k - 1]) <=> IsNone(obj_st[2 * k])

all_dereferenced == \A i \in 1 .. Len(obj_st) : ~IsReference(obj_st[i])

C23_WorkStack ==
    /\ AtLoopTest => (whole_pairs /\ (whole_pairs => none_in_pairs) /\ all_dereferenced)
    /\ (pc = "body" /\ IsNone(popped.w_left)) => IsNone(popped.w_right)

\* the pair left by a missing attribute name lies under a deferred pair of arrays,
\* and its entries are the reference cells of the two attributes
C23_Witness ==
    /\ AtLoopTest
    /\ Len(obj_st) = 4
    /\ IsReference(obj_st[1])
    /\ IsReference(obj_st[2])
    /\ obj_st[3].tp = tp_array

====
